---- MODULE Spec2Model ----
(***************************************************************************)
(* A model of flow-calc's DGraph (src/src/index.js), its node kinds        *)
(* (src/src/d-nodes.js), the path utilities (object-path-utils) and the    *)
(* transform functions it calls (src/src/transform-fns.js).                *)
(*                                                                         *)
(* Strings.  A JavaScript string is modelled as the sequence of its        *)
(* dot-free segments: "inputs.x" is <<"inputs", "x">> and "hello" is       *)
(* <<"hello">>.  split('.') and join('.') are then structural, while       *)
(* concatenation and dot-escaping merge segments (Cat, escapeKey).         *)
(*                                                                         *)
(* Values.  A JavaScript value is a one-field record whose field name is   *)
(* its type tag, so that values of different types compare unequal.        *)
(***************************************************************************)
EXTENDS Integers, Sequences, FiniteSets, TLC

Undefined == [undef |-> 0]
Null == [null |-> 0]
NaN == [nan |-> 0]
Num(n) == [num |-> n]
Bool(b) == [bool |-> b]
Str(s) == [str |-> s]
Arr(q) == [arr |-> q]
Obj(p) == [obj |-> p]
Thrown(m) == [err |-> m]
Deferred(o) == [then |-> o]
Defs(q) == [defs |-> q]

IsUndefined(v) == "undef" \in DOMAIN v
IsNull(v) == "null" \in DOMAIN v
IsNaN(v) == "nan" \in DOMAIN v
IsNumber(v) == "num" \in DOMAIN v
IsBoolean(v) == "bool" \in DOMAIN v
IsString(v) == "str" \in DOMAIN v
IsArray(v) == "arr" \in DOMAIN v
IsPlainObject(v) == "obj" \in DOMAIN v
IsObject(v) == IsArray(v) \/ IsPlainObject(v)
IsThrown(v) == "err" \in DOMAIN v
IsThenable(v) == "then" \in DOMAIN v

(* Sequence helpers. *)

(* The element of a one-element set: The({e : x \in {v}}) is e with x      *)
(* standing for the value v, which is worked out once.                     *)
The(S) == CHOOSE x \in S : TRUE

(* A sequence written as a function [i \in 1..n |-> e], as a tuple: its    *)
(* elements are worked out once.                                           *)
AsSeq(f) == <<>> \o f

Range(q) == {q[i] : i \in 1..Len(q)}
MaxOf(S) == CHOOSE m \in S : \A n \in S : n <= m
MinOf(S) == CHOOSE m \in S : \A n \in S : m <= n

RECURSIVE Flat(_)
Flat(qq) == IF qq = <<>> THEN <<>> ELSE Head(qq) \o Flat(Tail(qq))

SelectIdx(q, Keep(_)) == LET RECURSIVE Go(_)
                             Go(i) == IF i > Len(q) THEN <<>>
                                      ELSE (IF Keep(i) THEN <<q[i]>> ELSE <<>>) \o Go(i + 1)
                         IN Go(1)

(* The first thrown element of a sequence of results, if any. *)
FirstThrown(q) == q[MinOf({i \in 1..Len(q) : IsThrown(q[i])})]
AnyThrown(q) == \E i \in 1..Len(q) : IsThrown(q[i])

(* Objects: own properties in insertion order, as <<key, value>> pairs. *)
Keys(o) == [i \in 1..Len(o.obj) |-> o.obj[i][1]]
Values(o) == [i \in 1..Len(o.obj) |-> o.obj[i][2]]
HasKey(o, k) == \E i \in 1..Len(o.obj) : o.obj[i][1] = k
Lookup(o, k) == IF HasKey(o, k)
                THEN o.obj[CHOOSE i \in 1..Len(o.obj) : o.obj[i][1] = k][2]
                ELSE Undefined
SetKey(o, k, v) == IF HasKey(o, k)
                   THEN Obj([i \in 1..Len(o.obj) |->
                              IF o.obj[i][1] = k THEN <<k, v>> ELSE o.obj[i]])
                   ELSE Obj(Append(o.obj, <<k, v>>))
RECURSIVE FromPairs(_)
FromPairs(ps) == IF ps = <<>> THEN Obj(<<>>)
                 ELSE LET last == ps[Len(ps)]
                      IN SetKey(FromPairs(SubSeq(ps, 1, Len(ps) - 1)), last[1], last[2])

(* String concatenation on segment sequences: the last segment of s and   *)
(* the first of t become one segment.                                      *)
Cat(s, t) == SubSeq(s, 1, Len(s) - 1) \o <<s[Len(s)] \o t[1]>> \o Tail(t)

(* Array indices as path segments. *)
Digits == <<"0", "1", "2", "3", "4", "5", "6", "7", "8", "9">>
IsIndex(a) == \E i \in 1..Len(Digits) : Digits[i] = a
ToIndex(a) == (CHOOSE i \in 1..Len(Digits) : Digits[i] = a) - 1
IndexString(i) == Digits[i + 1]

(***************************************************************************)
(* object-path-utils                                                       *)
(***************************************************************************)

(* _.has(v, p) for one segment p: an own property of an object or an       *)
(* index within an array.  Own properties of primitive strings (their      *)
(* character indices) are outside the value universe.                      *)
Has(v, p) == \/ IsPlainObject(v) /\ HasKey(v, <<p>>)
             \/ IsArray(v) /\ IsIndex(p) /\ ToIndex(p) < Len(v.arr)

(* v[p]: reading a property of null or undefined throws a TypeError. *)
Prop(v, p) == IF IsThrown(v) THEN v
              ELSE IF IsNull(v) \/ IsUndefined(v) THEN Thrown("TypeError")
              ELSE IF IsPlainObject(v) THEN Lookup(v, <<p>>)
              ELSE IF IsArray(v) /\ IsIndex(p) /\ ToIndex(p) < Len(v.arr)
                   THEN v.arr[ToIndex(p) + 1]
              ELSE Undefined

RECURSIVE getValueAtPath(_, _)
getValueAtPath(obj, path) ==
    IF Len(path) = 1 THEN Prop(obj, path[1])
    ELSE IF Has(obj, path[1])
         THEN getValueAtPath(Prop(obj, path[1]), Tail(path))
         ELSE Undefined

pathDotEscapeSeq == "_$dot$_"

(* k.replace(/\./g, pathDotEscapeSeq): one segment. *)
RECURSIVE escapeKey(_)
escapeKey(k) == IF Len(k) = 1 THEN k[1]
                ELSE k[1] \o pathDotEscapeSeq \o escapeKey(Tail(k))

RECURSIVE escapeObjectPaths(_)
escapeObjectPaths(obj) ==
    IF IsPlainObject(obj)
    THEN Obj([i \in 1..Len(obj.obj) |-> <<<<escapeKey(obj.obj[i][1])>>, obj.obj[i][2]>>])
    ELSE IF IsArray(obj)
         THEN Arr([i \in 1..Len(obj.arr) |-> escapeObjectPaths(obj.arr[i])])
         ELSE obj

(* parent is <<>> when absent; an empty-string parent is falsy too. *)
RECURSIVE collectObjectPaths(_, _)
collectObjectPaths(obj, parent) ==
    LET prefix(ps) == IF parent # <<>> /\ parent # <<"">>
                      THEN [i \in 1..Len(ps) |-> parent \o ps[i]]
                      ELSE ps
    IN IF IsArray(obj)
       THEN prefix(Flat([i \in 1..Len(obj.arr) |->
                collectObjectPaths(obj.arr[i], <<IndexString(i - 1)>>)]))
       ELSE IF IsPlainObject(obj)
       THEN prefix(Flat([i \in 1..Len(obj.obj) |->
                LET escapedKey == <<escapeKey(obj.obj[i][1])>>
                    v == obj.obj[i][2]
                IN IF IsObject(v) THEN collectObjectPaths(v, escapedKey)
                   ELSE <<escapedKey>>]))
       ELSE <<parent>>

(* Every key of a value, at any depth. *)
RECURSIVE AllKeys(_)
AllKeys(v) == IF IsPlainObject(v)
              THEN Range(Keys(v)) \cup UNION {AllKeys(v.obj[i][2]) : i \in 1..Len(v.obj)}
              ELSE IF IsArray(v) THEN UNION {AllKeys(v.arr[i]) : i \in 1..Len(v.arr)}
              ELSE {}

(* p.replace(pathDotUnescapeRegex, '.'): a segment that is the escape of   *)
(* a dotted key becomes that key's segments again.  The escape sequence    *)
(* only enters a path through escapeKey of one of the object's keys.       *)
unescapePath(p, keys) ==
    Flat([i \in 1..Len(p) |->
            IF \E k \in keys : Len(k) > 1 /\ escapeKey(k) = p[i]
            THEN CHOOSE k \in keys : Len(k) > 1 /\ escapeKey(k) = p[i]
            ELSE <<p[i]>>])

flattenObject(obj) ==
    The({The({FromPairs(AsSeq([i \in 1..Len(escapedPaths) |->
                    <<unescapePath(escapedPaths[i], keys),
                      getValueAtPath(escapedObject, escapedPaths[i])>>]))
              : escapedPaths \in {collectObjectPaths(escapedObject, <<>>)},
                keys \in {AllKeys(obj)}})
         : escapedObject \in {escapeObjectPaths(obj)}})

(* A variant of getValueAtPathWithArraySupport that hands back the items   *)
(* of the array whatever follows the "*".                                  *)
getValueAtPathWithArraySupportItemsOnly(obj, path) ==
    LET stars == {i \in 1..Len(path) : path[i] = "*"}
        at == MaxOf(stars)
        pathToArray == SubSeq(path, 1, at - 1)
        Map(array) == IF ~IsArray(array) THEN Thrown("not an array") ELSE array
    IN IF stars = {} THEN getValueAtPath(obj, path)
       ELSE The({IF IsThrown(found) THEN found
                 ELSE IF IsObject(found) /\ IsArray(Prop(found, "*"))
                      THEN Map(Prop(found, "*"))
                 ELSE Map(found)
                 : found \in {IF Len(pathToArray) > 0 THEN getValueAtPath(obj, pathToArray)
                              ELSE obj}})

(* Supports "before.*.after", "before.*" and "*.after".  The regular       *)
(* expression /^(.+\.)?\*(\..+)?$/ is greedy, so a path with several "*"   *)
(* segments is split at its last one.                                      *)
getValueAtPathWithArraySupport(obj, path) ==
    LET stars == {i \in 1..Len(path) : path[i] = "*"}
        at == MaxOf(stars)
        pathToArray == SubSeq(path, 1, at - 1)
        pathAfterArray == SubSeq(path, at + 1, Len(path))
        Map(array) ==
            IF ~IsArray(array) THEN Thrown("not an array")
            ELSE The({IF AnyThrown(items) THEN FirstThrown(items) ELSE Arr(items)
                      : items \in {AsSeq([j \in 1..Len(array.arr) |->
                                      IF Len(pathAfterArray) > 0
                                      THEN getValueAtPath(array.arr[j], pathAfterArray)
                                      ELSE array.arr[j]])}})
    IN IF stars = {} THEN getValueAtPath(obj, path)
       ELSE The({IF IsThrown(found) THEN found
                 ELSE IF IsObject(found) /\ IsArray(Prop(found, "*"))
                      THEN Map(Prop(found, "*"))
                 ELSE Map(found)
                 : found \in {IF Len(pathToArray) > 0 THEN getValueAtPath(obj, pathToArray)
                              ELSE obj}})

(***************************************************************************)
(* JavaScript conversions used by the node kinds and transform functions   *)
(***************************************************************************)
Truthy(v) == ~(IsUndefined(v) \/ IsNull(v) \/ IsNaN(v) \/ v = Num(0)
               \/ v = Bool(FALSE) \/ v = Str(<<"">>))

RECURSIVE NumToString(_)
NumToString(n) == IF n < 0 THEN "-" \o NumToString(0 - n)
                  ELSE IF n < 10 THEN Digits[n + 1]
                  ELSE NumToString(n \div 10) \o Digits[(n % 10) + 1]

(* String(v), as a segment sequence. *)
RECURSIVE StringOf(_)
StringOf(v) ==
    IF IsString(v) THEN v.str
    ELSE IF IsNumber(v) THEN <<NumToString(v.num)>>
    ELSE IF IsNull(v) THEN <<"null">>
    ELSE IF IsUndefined(v) THEN <<"undefined">>
    ELSE IF IsNaN(v) THEN <<"NaN">>
    ELSE IF IsBoolean(v) THEN (IF v.bool THEN <<"true">> ELSE <<"false">>)
    ELSE IF IsArray(v)
         THEN LET elem(i) == IF IsNull(v.arr[i]) \/ IsUndefined(v.arr[i]) THEN <<"">>
                             ELSE StringOf(v.arr[i])
                  RECURSIVE Join(_)
                  Join(i) == IF i > Len(v.arr) THEN <<"">>
                             ELSE IF i = Len(v.arr) THEN elem(i)
                             ELSE Cat(elem(i), Cat(<<",">>, Join(i + 1)))
              IN Join(1)
    ELSE <<"[object Object]">>

(* Number(v).  A string is numeric here only when it is one digit; the    *)
(* strings of the model hold no other numerals.  An array converts through *)
(* its string: [] is 0, [x] is Number(String(x)), a longer one is NaN.     *)
RECURSIVE ToNumber(_)
ToNumber(v) ==
    IF IsNumber(v) THEN v
    ELSE IF IsNull(v) THEN Num(0)
    ELSE IF IsBoolean(v) THEN (IF v.bool THEN Num(1) ELSE Num(0))
    ELSE IF IsString(v)
         THEN (IF v.str = <<"">> THEN Num(0)
               ELSE IF Len(v.str) = 1 /\ IsIndex(v.str[1]) THEN Num(ToIndex(v.str[1]))
               ELSE NaN)
    ELSE IF IsArray(v)
         THEN (IF Len(v.arr) = 0 THEN Num(0)
               ELSE IF Len(v.arr) > 1 THEN NaN
               ELSE IF IsNull(v.arr[1]) \/ IsUndefined(v.arr[1]) THEN Num(0)
               ELSE IF IsBoolean(v.arr[1]) THEN NaN
               ELSE ToNumber(v.arr[1]))
    ELSE NaN

(* a === b.  Objects and arrays read from the graph are fresh copies, so   *)
(* two of them are never the same reference.                               *)
StrictEquals(a, b) == ~IsObject(a) /\ ~IsNaN(a) /\ a = b

(* v[key] for a key given as a string. *)
PropByKey(v, key) ==
    IF IsNull(v) \/ IsUndefined(v) THEN Thrown("TypeError")
    ELSE IF IsPlainObject(v) THEN Lookup(v, key)
    ELSE IF Len(key) = 1 THEN Prop(v, key[1])
    ELSE Undefined

RECURSIVE flattenDeep(_)
flattenDeep(q) == Flat([i \in 1..Len(q) |->
                          IF IsArray(q[i]) THEN flattenDeep(q[i].arr) ELSE <<q[i]>>])

(***************************************************************************)
(* transform-fns.js: the functions the graphs of the model name            *)
(***************************************************************************)
extractNItems(items) == IF IsPlainObject(items) THEN flattenDeep(Values(items))
                        ELSE IF IsArray(items) THEN flattenDeep(items.arr)
                        ELSE items

(* ({ amt, factor }) => amt * factor *)
mult(args) ==
    LET amt == ToNumber(Lookup(args, <<"amt">>))
        factor == ToNumber(Lookup(args, <<"factor">>))
    IN IF IsNaN(amt) \/ IsNaN(factor) THEN NaN ELSE Num(amt.num * factor.num)

(* ({ test, pass, fail }) => (test ? pass : fail) *)
ternary(args) == IF Truthy(Lookup(args, <<"test">>)) THEN Lookup(args, <<"pass">>)
                 ELSE Lookup(args, <<"fail">>)

(* items => extractNItems(items).reduce((t, a) => t + a, '') *)
concat(args) ==
    LET items == extractNItems(args)
        RECURSIVE Go(_)
        Go(i) == IF i = 0 THEN <<"">> ELSE Cat(Go(i - 1), StringOf(items[i]))
    IN Str(Go(Len(items)))

(* ({ collection, propName, propValue }) =>                                *)
(*     extractNItems(collection).find(item => item[propName] === propValue) *)
find(args) ==
    LET collection == Lookup(args, <<"collection">>)
        items == extractNItems(collection)
        propName == StringOf(Lookup(args, <<"propName">>))
        propValue == Lookup(args, <<"propValue">>)
        RECURSIVE Go(_)
        Go(i) == IF i > Len(items) THEN Undefined
                 ELSE LET got == PropByKey(items[i], propName)
                      IN IF IsThrown(got) THEN got
                         ELSE IF StrictEquals(got, propValue) THEN items[i]
                         ELSE Go(i + 1)
    IN IF ~IsObject(collection) THEN Thrown("TypeError") ELSE Go(1)

transformFns == {"mult", "ternary", "concat", "find"}

ApplyFn(fn, args) == CASE fn = "mult" -> mult(args)
                       [] fn = "ternary" -> ternary(args)
                       [] fn = "concat" -> concat(args)
                       [] fn = "find" -> find(args)

(***************************************************************************)
(* Node declarations: records from field name to value.  `name` is a       *)
(* string (segment sequence) and `type` a kind tag; every other field is   *)
(* a JavaScript value.  A field the declaration lacks reads as undefined.  *)
(***************************************************************************)
Get(nodeDef, f) == IF f \in DOMAIN nodeDef THEN nodeDef[f] ELSE Undefined
With(nodeDef, f, v) == [g \in DOMAIN nodeDef \cup {f} |-> IF g = f THEN v ELSE nodeDef[g]]

(* dNodeClasses[type].getPathProps(): the path-bearing fields, in order. *)
dNodeClasses == {"static", "comments", "alias", "echo", "dereference", "transform",
                 "inputs", "async", "branch", "graph"}
getPathProps(type) == CASE type = "alias" -> <<"mirror">>
                        [] type = "echo" -> <<"inputName">>
                        [] type = "dereference" -> <<"objectPath", "propNamePath">>
                        [] type = "transform" -> <<"params">>
                        [] type = "branch" -> <<"nodeNames">>
                        [] type = "graph" -> <<"inputs">>
                        [] OTHER -> <<>>

(* DGraph.srcFromPath: valuePath <<>> stands for undefined. *)
srcFromPath(srcPath) == IF Len(srcPath) > 1
                        THEN [nodeId |-> <<srcPath[1]>>, valuePath |-> Tail(srcPath)]
                        ELSE [nodeId |-> srcPath, valuePath |-> <<>>]

(* DGraph.normalizePathDef: an object from property name to path. *)
normalizePathDef(pathDef) ==
    IF IsArray(pathDef)
    THEN FromPairs([i \in 1..Len(pathDef.arr) |-> <<StringOf(pathDef.arr[i]), pathDef.arr[i]>>])
    ELSE IF IsString(pathDef) THEN Obj(<< <<pathDef.str, pathDef>> >>)
    ELSE IF IsPlainObject(pathDef) THEN pathDef
    ELSE Obj(<<>>)

(* The literal-inference loop of _preprocessGraphDef for one field of one  *)
(* declaration: the normalized field and the static nodes created for it.  *)
InferLiterals(nodeDef, normalizedPathDefs, nodeNames) ==
    LET isLiteral(i) ==
            LET pathOrValue == normalizedPathDefs.obj[i][2]
            IN ~IsString(pathOrValue) \/ <<pathOrValue.str[1]>> \notin nodeNames
        newNodeName(i) == Cat(<<"#literal#">>,
                              Cat(nodeDef.name, Cat(<<"#">>, normalizedPathDefs.obj[i][1])))
    IN [field |-> Obj([i \in 1..Len(normalizedPathDefs.obj) |->
                    IF isLiteral(i)
                    THEN <<normalizedPathDefs.obj[i][1], Str(newNodeName(i))>>
                    ELSE normalizedPathDefs.obj[i]]),
        literalNodes |-> SelectIdx(
            [i \in 1..Len(normalizedPathDefs.obj) |->
                [name |-> newNodeName(i), type |-> "static",
                 value |-> normalizedPathDefs.obj[i][2]]],
            isLiteral)]

(* One declaration through the literal-inference pass: its fields          *)
(* rewritten, and its literal nodes.                                       *)
RECURSIVE PreprocessNode(_, _, _)
PreprocessNode(nodeDef, props, nodeNames) ==
    IF props = <<>> THEN [nodeDef |-> nodeDef, literalNodes |-> <<>>]
    ELSE LET pathPropertyValue == Get(nodeDef, Head(props))
             rest == PreprocessNode(nodeDef, Tail(props), nodeNames)
         IN IF ~Truthy(pathPropertyValue) THEN rest
            ELSE LET inf == InferLiterals(nodeDef, normalizePathDef(pathPropertyValue), nodeNames)
                 IN [nodeDef |-> With(rest.nodeDef, Head(props), inf.field),
                     literalNodes |-> inf.literalNodes \o rest.literalNodes]

(* A variant of AliasNodes that takes the aliases of a node for one name. *)
AliasNodesOfOneName(graphDef) ==
    Flat([i \in 1..Len(graphDef) |->
        IF ~Truthy(Get(graphDef[i], "aliases")) THEN <<>>
        ELSE <<[name |-> StringOf(Get(graphDef[i], "aliases")), type |-> "alias",
                mirror |-> Str(graphDef[i].name)]>>])

(* The alias declarations of _preprocessGraphDef. *)
AliasNodes(graphDef) ==
    Flat([i \in 1..Len(graphDef) |->
        LET aliases == Get(graphDef[i], "aliases")
            list == IF IsArray(aliases) THEN aliases.arr ELSE <<aliases>>
        IN IF ~Truthy(aliases) THEN <<>>
           ELSE [j \in 1..Len(list) |->
                    [name |-> StringOf(list[j]), type |-> "alias",
                     mirror |-> Str(graphDef[i].name)]]])

(* DGraph._preprocessGraphDef.  A declaration of an unknown type throws    *)
(* (getPathProps of undefined).                                            *)
preprocessGraphDef(graphDef) ==
    LET def == graphDef \o AliasNodes(graphDef)
               \o <<[name |-> <<"inputs">>, type |-> "inputs", value |-> Obj(<<>>)]>>
        nodeNames == {def[i].name : i \in 1..Len(def)}
        done == [i \in 1..Len(def) |->
                    PreprocessNode(def[i], getPathProps(def[i].type), nodeNames)]
    IN IF \E i \in 1..Len(def) : def[i].type \notin dNodeClasses
       THEN Thrown("TypeError")
       ELSE [i \in 1..Len(def) |-> done[i].nodeDef]
            \o Flat([i \in 1..Len(def) |-> done[i].literalNodes])

(***************************************************************************)
(* The graph as the node kinds see it: G.nodes is the node table (the      *)
(* preprocessed declarations, in insertion order) and G.inputs the         *)
(* content of the inputs node; G.values holds the _value of each graph     *)
(* node, and G.settled names the graph nodes whose _value was assigned by  *)
(* the step that led to G.  G.super is the supergraph (NoGraph for a root  *)
(* graph), as it was when G was constructed.                               *)
(***************************************************************************)
NoNode == [name |-> <<>>, type |-> "none"]
NoGraph == [nodes |-> <<>>]

(* graphlib's setNode keeps one entry per name: a later declaration of a   *)
(* name replaces the node, at the place of the first.                      *)
NodeTable(defs) ==
    LET firstAt(i) == \A j \in 1..(i - 1) : defs[j].name # defs[i].name
        lastOf(i) == defs[MaxOf({j \in 1..Len(defs) : defs[j].name = defs[i].name})]
    IN SelectIdx([i \in 1..Len(defs) |-> lastOf(i)], firstAt)

(* The graph nodes of a node table, were a template to run a subgraph as   *)
(* well.                                                                   *)
GraphNodeNamesTemplatesToo(nodes) ==
    {nodes[i].name : i \in {j \in 1..Len(nodes) : nodes[j].type = "graph"}}

(* The graph nodes of a node table that run a subgraph: those that are     *)
(* not templates.                                                          *)
GraphNodeNames(nodes) ==
    {nodes[i].name : i \in {j \in 1..Len(nodes) :
        nodes[j].type = "graph" /\ ~Truthy(Get(nodes[j], "isTemplate"))}}

(* A graph whose graph nodes have not run: as a child graph is when it is  *)
(* constructed.                                                            *)
NewGraph(nodes, inputs, super) ==
    [nodes |-> nodes, inputs |-> inputs,
     values |-> [n \in GraphNodeNames(nodes) |-> Undefined], settled |-> {},
     super |-> super]

RECURSIVE rootGraph(_)
(* DGraph.rootGraph: the graph itself when it has no supergraph. *)
rootGraph(G) == IF G.super.nodes = <<>> THEN G ELSE rootGraph(G.super)

(* DGraph.getDNode (no ancestors). *)
getDNode(G, name) ==
    IF \E i \in 1..Len(G.nodes) : G.nodes[i].name = name
    THEN G.nodes[CHOOSE i \in 1..Len(G.nodes) : G.nodes[i].name = name]
    ELSE NoNode

RECURSIVE getDNodeInAncestors(_, _)
(* DGraph.getDNode(name, true): the supergraphs are searched as well. *)
getDNodeInAncestors(G, name) ==
    IF \E i \in 1..Len(G.nodes) : G.nodes[i].name = name
    THEN G.nodes[CHOOSE i \in 1..Len(G.nodes) : G.nodes[i].name = name]
    ELSE IF G.super.nodes = <<>> THEN NoNode
    ELSE getDNodeInAncestors(G.super, name)

(* A variant of getUndefinedPaths that takes NaN for a value. *)
getPathsOfUndefined(obj) ==
    The({LET bad(i) == IsUndefined(flattened.obj[i][2])
         IN SelectIdx(Keys(flattened), bad)
         : flattened \in {flattenObject(obj)}})

(* DGraph.getUndefinedPaths(obj): the flattened paths whose leaf is        *)
(* undefined or NaN.                                                       *)
getUndefinedPaths(obj) ==
    The({LET bad(i) == IsUndefined(flattened.obj[i][2]) \/ IsNaN(flattened.obj[i][2])
         IN SelectIdx(Keys(flattened), bad)
         : flattened \in {flattenObject(obj)}})

(* _.values(x)[0] of a normalized path field. *)
FirstValue(x) == IF IsPlainObject(x) /\ Len(x.obj) > 0 THEN x.obj[1][2] ELSE Undefined

(* name.startsWith('#'): the names the preprocessor builds for literal     *)
(* nodes, and the declared names listed in HashNames.                      *)
HashNames == {<<"#tmp">>}
LiteralNames(nodes) ==
    UNION {UNION {
        LET field == Get(nodes[i], getPathProps(nodes[i].type)[f])
        IN IF IsPlainObject(field)
           THEN {Cat(<<"#literal#">>, Cat(nodes[i].name, Cat(<<"#">>, field.obj[k][1])))
                    : k \in 1..Len(field.obj)}
           ELSE {}
        : f \in 1..Len(getPathProps(nodes[i].type))} : i \in 1..Len(nodes)}
StartsWithHash(G, name) == name \in HashNames \/ name \in LiteralNames(G.nodes)

(* The paths the `value` accessor of a node hands to getGraphValueAt, in   *)
(* the order it reads them.                                                *)
srcPathsOf(dNode) ==
    CASE dNode.type = "alias" -> <<FirstValue(Get(dNode, "mirror"))>>
      [] dNode.type = "echo" ->
            <<Str(<<"inputs">> \o (IF Truthy(Get(dNode, "inputName"))
                                   THEN StringOf(Get(dNode, "inputName"))
                                   ELSE dNode.name))>>
      [] dNode.type = "dereference" ->
            <<FirstValue(Get(dNode, "objectPath")), FirstValue(Get(dNode, "propNamePath"))>>
      [] dNode.type = "transform" -> Values(normalizePathDef(Get(dNode, "params")))
      [] OTHER -> <<>>

(* DereferenceDNode.value checks, before it reads, that both paths name    *)
(* nodes of the graph.                                                     *)
DereferenceNodesExist(G, dNode) ==
    \A i \in 1..2 : /\ IsString(srcPathsOf(dNode)[i])
                    /\ getDNode(G, srcFromPath(srcPathsOf(dNode)[i].str).nodeId) # NoNode

(* BranchDNode._switch.  Its first statement is                             *)
(* cases.findIndex('_default_'): Array.prototype.findIndex throws a        *)
(* TypeError when its argument is not a function, and so does reading      *)
(* findIndex of cases that are not there.                                  *)
switch(test, cases, values) == Thrown("TypeError")

RECURSIVE value(_, _), getGraphValueAt(_, _)

(* DNode.getGraphValueAt for a path given as a string.  A node that is     *)
(* not in the graph is logged and then dereferenced, which throws.         *)
getGraphValueAt(G, srcPath) ==
    IF ~IsString(srcPath) THEN Thrown("TypeError")
    ELSE The({IF dNode = NoNode THEN Thrown("TypeError")
              ELSE The({IF IsThrown(nodeValue) THEN nodeValue
                        ELSE IF ~IsUndefined(nodeValue) /\ src.valuePath # <<>>
                             THEN getValueAtPathWithArraySupport(nodeValue, src.valuePath)
                        ELSE nodeValue
                        : nodeValue \in {value(G, dNode)}})
              : src \in {srcFromPath(srcPath.str)},
                dNode \in {getDNode(G, srcFromPath(srcPath.str).nodeId)}})

(* The `value` accessor of each node kind; `read` holds what each of the   *)
(* node's paths reads.                                                     *)
value(G, dNode) ==
    LET Dereference(srcPaths, object, propName) ==
            IF ~IsString(srcPaths[1]) \/ ~IsString(srcPaths[2]) THEN Thrown("TypeError")
            ELSE IF ~DereferenceNodesExist(G, dNode) THEN Thrown("Error")
            ELSE IF IsThrown(object) THEN object
            ELSE IF IsThrown(propName) THEN propName
            ELSE IF ~IsUndefined(object) /\ ~IsUndefined(propName)
                 THEN The({IF IsThrown(found) THEN found
                           ELSE IF Truthy(found) THEN found ELSE Null
                           : found \in {PropByKey(object, StringOf(propName))}})
            ELSE Undefined
        Transform(args) ==
            IF Len(getUndefinedPaths(args)) = 0 THEN ApplyFn(dNode.fn, args) ELSE Undefined
        Of(srcPaths, read) ==
            CASE dNode.type = "static" -> Get(dNode, "value")
              [] dNode.type = "comments" ->
                    (IF (IsString(dNode.comments) /\ dNode.comments.str # <<"">>)
                        \/ (IsArray(dNode.comments) /\ Len(dNode.comments.arr) > 0)
                     THEN dNode.comments ELSE Null)
              [] dNode.type \in {"alias", "echo"} -> read[1]
              [] dNode.type = "dereference" -> Dereference(srcPaths, read[1], read[2])
              [] dNode.type = "transform" ->
                    (IF AnyThrown(read) THEN FirstThrown(read)
                     ELSE The({Transform(args)
                               : args \in {Obj(AsSeq([i \in 1..Len(read) |->
                                    <<Keys(normalizePathDef(dNode.params))[i], read[i]>>]))}}))
              [] dNode.type = "inputs" -> G.inputs
              [] dNode.type = "graph" ->
                    (IF Truthy(Get(dNode, "isTemplate"))
                     THEN Str(Cat(<<"Template Node ">>, dNode.name))
                     ELSE G.values[dNode.name])
              [] dNode.type = "branch" ->
                    (IF IsThrown(switch(Get(dNode, "test"), Get(dNode, "cases"),
                                        Get(dNode, "nodeNames")))
                     THEN switch(Get(dNode, "test"), Get(dNode, "cases"),
                                 Get(dNode, "nodeNames"))
                     ELSE getGraphValueAt(G, switch(Get(dNode, "test"), Get(dNode, "cases"),
                                                    Get(dNode, "nodeNames"))))
              [] OTHER -> Undefined
    IN The({The({Of(srcPaths, read)
                 : read \in {AsSeq([i \in 1..Len(srcPaths) |->
                                        getGraphValueAt(G, srcPaths[i])])}})
            : srcPaths \in {srcPathsOf(dNode)}})

(* A variant of isVisibleInGraphState without the rule for names that      *)
(* begin with #.                                                           *)
isVisibleWhateverItsName(G, options, dNode) ==
    /\ dNode.type # "inputs" \/ options.echoInputs
    /\ ~Truthy(Get(dNode, "isHidden"))
    /\ ~(dNode.type = "graph" /\ Truthy(Get(dNode, "isTemplate"))) \/ options.echoTemplates

(* A variant of isVisibleInGraphState without the rule for templates. *)
isVisibleAlsoAsTemplate(G, options, dNode) ==
    /\ ~StartsWithHash(G, dNode.name) \/ options.echoIntermediates
    /\ dNode.type # "inputs" \/ options.echoInputs
    /\ ~Truthy(Get(dNode, "isHidden"))

(* DNode.isVisibleInGraphState, and GraphDNode's override of it. *)
isVisibleInGraphState(G, options, dNode) ==
    /\ ~StartsWithHash(G, dNode.name) \/ options.echoIntermediates
    /\ dNode.type # "inputs" \/ options.echoInputs
    /\ ~Truthy(Get(dNode, "isHidden"))
    /\ ~(dNode.type = "graph" /\ Truthy(Get(dNode, "isTemplate"))) \/ options.echoTemplates

(* DGraph.getState: every node's value is read, the visible ones are       *)
(* kept; the first read that throws ends it.                               *)
getState(G, options, includeInvisible) ==
    LET shown(i) == isVisibleInGraphState(G, options, G.nodes[i]) \/ includeInvisible
    IN The({IF AnyThrown(read) THEN FirstThrown(read)
            ELSE Obj(SelectIdx(AsSeq([i \in 1..Len(read) |-> <<G.nodes[i].name, read[i]>>]),
                               shown))
            : read \in {AsSeq([i \in 1..Len(G.nodes) |-> value(G, G.nodes[i])])}})

(***************************************************************************)
(* Reactivity.  Every node's `value` is a mobx computed and the inputs     *)
(* node holds an observable object; run's autorun reads them through       *)
(* getState.  A computed is evaluated again when something it read has     *)
(* changed, and counts as changed when it threw, or throws now, or its     *)
(* new value is not the very value it had (Object.is).  G is the graph     *)
(* before a write to the inputs node and H the graph after it.             *)
(***************************************************************************)

(* The reads a node's `value` made on graph G: its paths in order, up to   *)
(* and including the first that threw.                                     *)
ReadsOf(G, dNode) ==
    IF dNode.type = "dereference" /\ ~DereferenceNodesExist(G, dNode) THEN <<>>
    ELSE The({The({IF thrownAt = {} THEN srcPaths ELSE SubSeq(srcPaths, 1, MinOf(thrownAt))
                   : thrownAt \in {{i \in 1..Len(srcPaths) :
                                       IsThrown(getGraphValueAt(G, srcPaths[i]))}}})
              : srcPaths \in {srcPathsOf(dNode)}})

RECURSIVE IsFreshValue(_, _)
(* Whether an object or array that is the value of dNode is a new          *)
(* reference each time the value is computed: toJS copies what is read     *)
(* out of the observable inputs object, and a wildcard read maps into a    *)
(* new array; a plain object of a static node is handed on as it is.       *)
IsFreshValue(G, dNode) ==
    LET Chosen(params) ==
            CASE dNode.type \in {"alias", "echo", "dereference"} -> srcPathsOf(dNode)[1]
              [] dNode.type = "transform" /\ dNode.fn = "ternary" ->
                    Lookup(params, IF Truthy(getGraphValueAt(G, Lookup(params, <<"test">>)))
                                   THEN <<"pass">> ELSE <<"fail">>)
              [] dNode.type = "transform" /\ dNode.fn = "find" ->
                    Lookup(params, <<"collection">>)
              [] OTHER -> Undefined
        From(src) == \/ src.nodeId = <<"inputs">>
                     \/ \E i \in 1..Len(src.valuePath) : src.valuePath[i] = "*"
                     \/ IsFreshValue(G, getDNode(G, src.nodeId))
    IN \E from \in {Chosen(normalizePathDef(Get(dNode, "params")))} :
          IsString(from) /\ \E src \in {srcFromPath(from.str)} : From(src)

RECURSIVE ComputedChanged(_, _, _)
(* Whether the computed `value` of dNode changes with the write from G to  *)
(* H: something it read has changed, and it threw, or throws now, or its   *)
(* new value is not the value it had.  A graph node's value is its         *)
(* observable _value, which changes when resolveNode assigns it.           *)
ComputedChanged(G, H, dNode) ==
    LET DepChanged(nodeId) ==
            IF getDNode(G, nodeId) = NoNode THEN FALSE
            ELSE IF nodeId = <<"inputs">> THEN G.inputs # H.inputs
            ELSE ComputedChanged(G, H, getDNode(G, nodeId))
    IN IF dNode.type = "graph" THEN dNode.name \in H.settled
       ELSE /\ \E reads \in {ReadsOf(G, dNode)} :
                 \E i \in 1..Len(reads) :
                     IsString(reads[i]) /\ DepChanged(srcFromPath(reads[i].str).nodeId)
            /\ \E was \in {<<value(G, dNode), value(H, dNode)>>} :
                 \/ IsThrown(was[1]) \/ IsThrown(was[2])
                 \/ was[1] # was[2]
                 \/ IsObject(was[2]) /\ IsFreshValue(H, dNode)

(* A variant of AutorunNotified in which the autorun observes the inputs   *)
(* object it copied into the state and no node's computed value.           *)
NotifiedThroughEcho(G, options, H) == options.echoInputs /\ G.inputs # H.inputs

(* Whether run's autorun is scheduled by the write that leads from G to    *)
(* H: it observes the nodes getState read (all of them, or those up to     *)
(* the one that threw), and the inputs object itself when getState         *)
(* copied it into the state.                                               *)
AutorunNotified(G, options, H) ==
    \E read \in {AsSeq([i \in 1..Len(G.nodes) |-> value(G, G.nodes[i])])} :
        \E i \in 1..(IF AnyThrown(read)
                     THEN MinOf({j \in 1..Len(read) : IsThrown(read[j])})
                     ELSE Len(read)) :
            \/ ComputedChanged(G, H, G.nodes[i])
            \/ /\ G.nodes[i].type = "inputs"
               /\ isVisibleInGraphState(G, options, G.nodes[i])
               /\ G.inputs # H.inputs

(***************************************************************************)
(* DGraph.run and DGraph.setInputs                                         *)
(***************************************************************************)

(* DGraph.collectExpectedInputPaths(graphDef): the paths after "inputs."   *)
collectExpectedInputPaths(graphDef) ==
    LET ofField(nodeDef, propName) ==
            LET paths == Values(normalizePathDef(Get(nodeDef, propName)))
                isInput(i) == IsString(paths[i]) /\ Len(paths[i].str) > 1
                              /\ paths[i].str[1] = "inputs"
            IN SelectIdx([i \in 1..Len(paths) |->
                            IF IsString(paths[i]) THEN Tail(paths[i].str) ELSE <<>>], isInput)
        ofNode(nodeDef) == Flat([f \in 1..Len(getPathProps(nodeDef.type)) |->
                                    ofField(nodeDef, getPathProps(nodeDef.type)[f])])
    IN Flat([i \in 1..Len(graphDef) |-> ofNode(graphDef[i])])

(* A variant of collectExpectedInputNames that stops at the first path. *)
firstExpectedInputName(graphDef) ==
    {<<paths[1][1]>> : paths \in {collectExpectedInputPaths(graphDef)} \ {<<>>}}

(* DGraph.collectExpectedInputNames: the first segment of each. *)
collectExpectedInputNames(graphDef) ==
    {<<p[1]>> : p \in Range(collectExpectedInputPaths(graphDef))}

(* A variant of setInputs without the check of the key against the nodes. *)
setInputsUnchecked(G, inputs) ==
    LET isPlain(i) == ~IsThenable(inputs.obj[i][2])
    IN [threw |-> FALSE,
        written |-> SelectIdx(inputs.obj, isPlain),
        attached |-> {[key |-> inputs.obj[i][1], outcome |-> inputs.obj[i][2].then]
                        : i \in {j \in 1..Len(inputs.obj) : IsThenable(inputs.obj[j][2])}}]

(* A variant of setInputs that writes a deferred value as it is given,     *)
(* without waiting for it.                                                 *)
setInputsAtOnce(G, inputs) ==
    LET conflicts(i) == getDNode(G, inputs.obj[i][1]) # NoNode
                        /\ getDNode(G, inputs.obj[i][1]).type # "echo"
        upto == IF \E i \in 1..Len(inputs.obj) : conflicts(i)
                THEN MinOf({i \in 1..Len(inputs.obj) : conflicts(i)}) - 1
                ELSE Len(inputs.obj)
    IN [threw |-> upto < Len(inputs.obj),
        written |-> SubSeq(inputs.obj, 1, upto),
        attached |-> {}]

(* DGraph.setInputs(inputs): the keys in order.  A key that names a node  *)
(* other than an echo node throws there and then: the keys before it       *)
(* have been written (or have had their completion handler attached).      *)
setInputs(G, inputs) ==
    LET conflicts(i) == getDNode(G, inputs.obj[i][1]) # NoNode
                        /\ getDNode(G, inputs.obj[i][1]).type # "echo"
        Upto(done) ==
            LET isPlain(i) == ~IsThenable(done[i][2])
            IN [threw |-> Len(done) < Len(inputs.obj),
                written |-> SelectIdx(done, isPlain),
                attached |-> {[key |-> done[i][1], outcome |-> done[i][2].then]
                                : i \in {j \in 1..Len(done) : IsThenable(done[j][2])}}]
    IN Upto(SubSeq(inputs.obj, 1,
                   IF \E i \in 1..Len(inputs.obj) : conflicts(i)
                   THEN MinOf({i \in 1..Len(inputs.obj) : conflicts(i)}) - 1
                   ELSE Len(inputs.obj)))

RECURSIVE SetAll(_, _)
(* InputsDNode.setValue for each pair of `written`, in order. *)
SetAll(o, written) ==
    IF written = <<>> THEN o
    ELSE SetAll(SetKey(o, written[1][1], written[1][2]), Tail(written))

(* One execution of the function run hands to autorun, on graph H.         *)
(* `dispose` is assigned when autorun returns, so the execution autorun    *)
(* makes while it is being created finds it undefined (canDispose FALSE).  *)
Recomputation(H, opts, canDispose, p, evs) ==
    LET settle(to, v) == IF p.state = "pending" THEN [state |-> to, value |-> v] ELSE p
        after == IF canDispose THEN "disposed" ELSE "active"
        Report(state) ==
            The({IF Len(undefinedPaths) = 0
                 THEN [promise |-> settle("resolved", state), observer |-> after,
                       events |-> Append(evs, [name |-> "resolved", state |-> state])]
                 ELSE [promise |-> p, observer |-> "active",
                       events |-> Append(evs, [name |-> "stepped", state |-> state,
                                               undefinedPaths |-> undefinedPaths])]
                 : undefinedPaths \in {getUndefinedPaths(state)}})
    IN The({IF IsThrown(state)
            THEN [promise |-> settle("rejected", state), observer |-> after,
                  events |-> Append(evs, [name |-> "error", error |-> state])]
            ELSE Report(state)
            : state \in {getState(H, opts, FALSE)}})

(***************************************************************************)
(* Graph nodes (GraphDNode): a node that runs a subgraph on inputs it      *)
(* reads from the graph around it.                                         *)
(***************************************************************************)

RECURSIVE pathValueToObject(_, _, _)
(* object-path-utils.pathValueToObject(path, value, oObj) for a container  *)
(* oObj: the containers along the path are made where they are missing,    *)
(* an array where the next segment is an index, and the value is set at    *)
(* the end.  An index beyond the end of an array is outside the paths of   *)
(* the model.                                                              *)
pathValueToObject(path, v, oObj) ==
    LET Assign(c, p, x) ==
            IF IsArray(c)
            THEN (IF ToIndex(p) < Len(c.arr)
                  THEN Arr([i \in 1..Len(c.arr) |-> IF i = ToIndex(p) + 1 THEN x ELSE c.arr[i]])
                  ELSE Arr(Append(c.arr, x)))
            ELSE SetKey(c, <<p>>, x)
        Container(existing, nextIsArray) ==
            IF (IF Truthy(existing) /\ nextIsArray THEN IsArray(existing)
                ELSE IsObject(existing))
            THEN existing
            ELSE (IF nextIsArray THEN Arr(<<>>) ELSE Obj(<<>>))
    IN IF Len(path) = 1 THEN Assign(oObj, path[1], v)
       ELSE Assign(oObj, path[1],
                   pathValueToObject(Tail(path), v,
                                     Container(Prop(oObj, path[1]), IsIndex(path[2]))))

RECURSIVE expandObject(_)
(* object-path-utils.expandObject(obj): each key is a path. *)
expandObject(obj) ==
    IF obj.obj = <<>> THEN Obj(<<>>)
    ELSE LET last == obj.obj[Len(obj.obj)]
         IN pathValueToObject(last[1], last[2],
                              expandObject(Obj(SubSeq(obj.obj, 1, Len(obj.obj) - 1))))

(* The declaration list a graph node builds with: its own, or that of the  *)
(* template its graphDef names (undefined when there is none).             *)
templateGraphDef(G, dNode) ==
    LET graphDef == Get(dNode, "graphDef")
    IN IF ~IsString(graphDef) THEN graphDef
       ELSE IF getDNodeInAncestors(G, graphDef.str) = NoNode THEN Undefined
       ELSE Get(getDNodeInAncestors(G, graphDef.str), "graphDef")

(* GraphDNode.buildWithGraphDef: inputSrcs, as an object from input name   *)
(* to the path it is read from.                                            *)
hasExplicitInputs(dNode) == Truthy(Get(dNode, "inputs"))
inputSrcs(G, dNode) ==
    IF hasExplicitInputs(dNode) THEN normalizePathDef(Get(dNode, "inputs"))
    ELSE The({normalizePathDef(Arr([i \in 1..Len(paths) |-> Str(paths[i])]))
              : paths \in {collectExpectedInputPaths(templateGraphDef(G, dNode).defs)}})

(* What each source of a graph node reads, in order: with explicit inputs  *)
(* the path; without, the node of the graph around it that the path        *)
(* names, or else the property of that graph's inputs.  The property is    *)
(* looked for in the inputs of the graph around the node or, when these    *)
(* are empty, in the root graph's, and is read from the former.            *)
InputReads(G, dNode) ==
    The({AsSeq([i \in 1..Len(srcs.obj) |->
            The({IF ~explicit /\ ~inGraph /\ ~HasKey(superGraphInputs, src.nodeId)
                 THEN Thrown("Error")
                 ELSE The({getGraphValueAt(G, from)
                           : from \in {IF explicit \/ inGraph THEN srcs.obj[i][2]
                                       ELSE Str(<<"inputs">> \o srcs.obj[i][2].str)}})
                 : src \in {srcFromPath(srcs.obj[i][2].str)},
                   inGraph \in {getDNode(G, srcFromPath(srcs.obj[i][2].str).nodeId) # NoNode}})])
         : srcs \in {inputSrcs(G, dNode)}, explicit \in {hasExplicitInputs(dNode)},
           superGraphInputs \in {IF G.inputs = Obj(<<>>) THEN rootGraph(G).inputs
                                 ELSE G.inputs}})

(* GraphDNode.getInputs *)
getInputs(G, dNode) ==
    The({IF AnyThrown(read) THEN FirstThrown(read)
         ELSE The({IF hasExplicitInputs(dNode) THEN args ELSE expandObject(args)
                   : args \in {Obj(AsSeq([i \in 1..Len(read) |-> <<names[i], read[i]>>]))}})
         : read \in {InputReads(G, dNode)}, names \in {AsSeq(Keys(inputSrcs(G, dNode)))}})

(* Whether the autorun of a graph node is scheduled by the step from G to  *)
(* H: it observes what getInputs read, up to the read that threw.          *)
NodeNotified(G, H, dNode) ==
    \E read \in {InputReads(G, dNode)}, paths \in {AsSeq(Values(inputSrcs(G, dNode)))} :
       \E i \in 1..(IF AnyThrown(read)
                    THEN MinOf({j \in 1..Len(read) : IsThrown(read[j])})
                    ELSE Len(read)) :
          \E observed \in {getDNode(G, srcFromPath(paths[i].str).nodeId)} :
             IF observed.type = "inputs" \/ (observed = NoNode /\ ~hasExplicitInputs(dNode))
             THEN G.inputs # H.inputs
             ELSE observed # NoNode /\ ComputedChanged(G, H, observed)

RECURSIVE ChildAutorun(_, _, _)
(* The promise p of a child graph's run once the child's autorun has       *)
(* executed on each of the graphs in turn; a settled promise stays as it   *)
(* is.                                                                     *)
ChildAutorun(graphs, opts, p) ==
    IF graphs = <<>> \/ p.state # "pending" THEN p
    ELSE ChildAutorun(Tail(graphs), opts,
                      Recomputation(Head(graphs), opts, TRUE, p, <<>>).promise)

(* What the completion of a step from G to H of a child graph makes of    *)
(* the promise p of its run: the child's autorun, if the step notifies     *)
(* it, executes again.                                                     *)
ChildStep(G, H, opts, p) ==
    ChildAutorun(IF AutorunNotified(G, opts, H) THEN <<H>> ELSE <<>>, opts, p)

RECURSIVE waitForFulfillment(_, _, _)
(* new DGraph(graphDef, name, supergraph, options).run(args) for a child   *)
(* graph of graph P: "threw" when run throws, or else the promise run      *)
(* returns, with the executions of the autoruns of the child's own graph   *)
(* nodes (`inner`).  The child's autorun is created while the graph        *)
(* node's is running and runs after it, when autorun has returned and      *)
(* `dispose` is assigned; the child's graph nodes, which wait for the      *)
(* root graph's isConnected, execute after that, and the child's autorun   *)
(* executes again when one of them has resolved (resolveNode notifies      *)
(* whoever read the node's value, and the autorun read every node's).      *)
(* The promise is given as it is once the child's graph nodes have         *)
(* settled; they read no other graph node of the child.                    *)
NoRun == [state |-> "threw", value |-> Undefined]
ChildRun(P, graphDef, opts, args) ==
    IF \E n \in collectExpectedInputNames(graphDef) : n \notin Range(Keys(args))
    THEN [promise |-> NoRun, inner |-> <<>>]
    ELSE The({The({IF set.threw THEN [promise |-> NoRun, inner |-> <<>>]
                   ELSE The({The({The({
                            [promise |-> ChildAutorun(
                                 IF after.settled # {} THEN <<H, after>> ELSE <<H>>,
                                 opts, [state |-> "pending", value |-> Undefined]),
                             inner |-> inner]
                            : after \in {[H EXCEPT
                                  !.values = [n \in DOMAIN H.values |->
                                      IF \E i \in 1..Len(inner) :
                                            /\ inner[i].node = n
                                            /\ inner[i].promise.state = "resolved"
                                      THEN inner[CHOOSE i \in 1..Len(inner) :
                                                    inner[i].node = n].promise.value
                                      ELSE Undefined],
                                  !.settled = {inner[i].node : i \in
                                      {j \in 1..Len(inner) :
                                          inner[j].promise.state = "resolved"}}]}})
                            : inner \in {AsSeq([i \in 1..Len(built) |->
                                  [node |-> built[i].name, over |-> H.inputs]
                                  @@ waitForFulfillment(H, opts, built[i])])}})
                            : H \in {[G EXCEPT !.inputs = SetAll(G.inputs, set.written)]},
                              built \in {SelectSeq(G.nodes, LAMBDA dNode :
                                  /\ dNode.name \in GraphNodeNames(G.nodes)
                                  /\ ~IsUndefined(templateGraphDef(G, dNode)))}})
                   : set \in {setInputs(G, args)}})
              : G \in {NewGraph(NodeTable(preprocessGraphDef(graphDef)), Obj(<<>>), P)}})

(* Promise.all, were it to give the values last first. *)
PromiseAllLastFirst(promises) ==
    IF \E i \in 1..Len(promises) : promises[i].state = "rejected"
    THEN promises[MinOf({i \in 1..Len(promises) : promises[i].state = "rejected"})]
    ELSE IF \A i \in 1..Len(promises) : promises[i].state = "resolved"
    THEN [state |-> "resolved",
          value |-> Arr([i \in 1..Len(promises) |-> promises[Len(promises) + 1 - i].value])]
    ELSE [state |-> "pending", value |-> Undefined]

(* Promise.all: rejected with the reason of a promise that rejected,       *)
(* resolved with the values in the order of the promises when all have     *)
(* resolved, and pending until then.                                       *)
PromiseAll(promises) ==
    IF \E i \in 1..Len(promises) : promises[i].state = "rejected"
    THEN promises[MinOf({i \in 1..Len(promises) : promises[i].state = "rejected"})]
    ELSE IF \A i \in 1..Len(promises) : promises[i].state = "resolved"
    THEN [state |-> "resolved", value |-> Arr([i \in 1..Len(promises) |-> promises[i].value])]
    ELSE [state |-> "pending", value |-> Undefined]

(* The arguments _runAsMap hands to the child graphs, in order: `item`,   *)
(* the element of the collection, and then the inputs other than           *)
(* `collection`.                                                           *)
itemArgsOf(args) ==
    LET collection == Lookup(args, <<"collection">>).arr
        isItemArg(i) == args.obj[i][1] # <<"collection">>
    IN [i \in 1..Len(collection) |->
            Obj(<< <<<<"item">>, collection[i]>> >> \o SelectIdx(args.obj, isItemArg))]

(* The promise of the child runs, were it to resolve as soon as one of     *)
(* them has.                                                               *)
CombinedAsSoonAsOne(promises, isMap) ==
    IF \E i \in 1..Len(promises) : promises[i] = NoRun THEN NoRun
    ELSE IF \E i \in 1..Len(promises) : promises[i].state = "resolved"
    THEN [state |-> "resolved",
          value |-> IF isMap THEN Arr([i \in 1..Len(promises) |-> promises[i].value])
                    ELSE promises[1].value]
    ELSE IF isMap THEN PromiseAll(promises)
    ELSE promises[1]

(* What _runOnObj and _runAsMap hand their callbacks to: the promise of    *)
(* the one run, or Promise.all of the runs.                                *)
Combined(promises, isMap) ==
    IF \E i \in 1..Len(promises) : promises[i] = NoRun THEN NoRun
    ELSE IF isMap THEN PromiseAll(promises)
    ELSE promises[1]

(* The deferred inputs a child graph is still to receive: setInputs gave   *)
(* each a completion handler, and the child's autorun is alive while its   *)
(* promise is pending.                                                     *)
Awaited(args, childPromise) ==
    IF childPromise.state # "pending" THEN {}
    ELSE {args.obj[i][1] : i \in {j \in 1..Len(args.obj) :
                                     /\ IsThenable(args.obj[j][2])
                                     /\ "ok" \in DOMAIN args.obj[j][2].then}}

(* GraphDNode._runOnObj and _runAsMap: a child graph for each element of   *)
(* argsList, in order; each is run before the next is made, and a run      *)
(* that throws ends the loop.                                              *)
runSubgraphs(G, graphDef, opts, argsList, isMap) ==
    The({The({[runs |-> SubSeq(all, 1, upto),
               promise |-> Combined(AsSeq([i \in 1..Len(all) |-> all[i].promise]), isMap)]
              : upto \in {IF \E i \in 1..Len(all) : all[i].promise = NoRun
                          THEN MinOf({i \in 1..Len(all) : all[i].promise = NoRun})
                          ELSE Len(all)}})
         : all \in {AsSeq([i \in 1..Len(argsList) |->
                        The({[args |-> args, promise |-> ran.promise,
                              awaiting |-> Awaited(args, ran.promise), inner |-> ran.inner]
                             : ran \in {ChildRun(G, graphDef, opts, argsList[i])},
                               args \in {argsList[i]}})])}})

(* The inputs of a child graph that was run with args and still awaits    *)
(* the deferred inputs `awaiting`.                                         *)
ChildInputs(args, awaiting) ==
    LET arrived(pair) == IF IsThenable(pair[2]) THEN <<pair[1], pair[2].then.ok>> ELSE pair
        plain == SelectSeq(args.obj, LAMBDA pair : ~IsThenable(pair[2]))
        completed == SelectSeq(args.obj, LAMBDA pair : /\ IsThenable(pair[2])
                                                       /\ pair[1] \notin awaiting)
    IN SetAll(Obj(<<>>), plain \o [i \in 1..Len(completed) |-> arrived(completed[i])])

(* The completion handler setInputs of a child graph gave the deferred     *)
(* input `key`: dNode.setValue(key, result), and the child's autorun, if   *)
(* it observed the inputs, executes again.  The promise of the child's run *)
(* afterwards.                                                             *)
ChildCompletion(P, graphDef, opts, child, key) ==
    The({The({ChildStep(G, H, opts, child.promise)
              : H \in {[G EXCEPT !.inputs = SetKey(G.inputs, key,
                                                  Lookup(child.args, key).then.ok)]}})
         : G \in {NewGraph(NodeTable(preprocessGraphDef(graphDef)),
                           ChildInputs(child.args, child.awaiting), P)}})

(* One execution of the function waitForFulfillment hands to autorun, on   *)
(* graph G: the inputs it read, the child graphs it instantiated and ran,  *)
(* and the promise whose callbacks it registered ("none" when it did not   *)
(* come to that: inputs absent, or an exception, which mobx catches and    *)
(* logs).                                                                  *)
Nothing == [runs |-> <<>>, promise |-> [state |-> "none", value |-> Undefined]]

(* waitForFulfillment, were it not to look for absent inputs. *)
waitForFulfillmentWhateverIsAbsent(G, opts, dNode) ==
    The({[inputs |-> args] @@
         (IF IsThrown(args) THEN Nothing
          ELSE IF isMap /\ ~(Truthy(Lookup(args, <<"collection">>))
                             /\ IsArray(Lookup(args, <<"collection">>)))
          THEN Nothing
          ELSE The({runSubgraphs(G, graphDef, opts, argsList, isMap)
                    : graphDef \in {templateGraphDef(G, dNode).defs},
                      argsList \in {IF isMap THEN AsSeq(itemArgsOf(args)) ELSE <<args>>}}))
         : args \in {getInputs(G, dNode)},
           isMap \in {Get(dNode, "collectionMode") = Str(<<"map">>)}})

waitForFulfillment(G, opts, dNode) ==
    The({[inputs |-> args] @@
         (IF IsThrown(args) THEN Nothing
          ELSE IF Len(getUndefinedPaths(args)) # 0 THEN Nothing
          ELSE IF isMap /\ ~(Truthy(Lookup(args, <<"collection">>))
                             /\ IsArray(Lookup(args, <<"collection">>)))
          THEN Nothing
          ELSE The({runSubgraphs(G, graphDef, opts, argsList, isMap)
                    : graphDef \in {templateGraphDef(G, dNode).defs},
                      argsList \in {IF isMap THEN AsSeq(itemArgsOf(args)) ELSE <<args>>}}))
         : args \in {getInputs(G, dNode)},
           isMap \in {Get(dNode, "collectionMode") = Str(<<"map">>)}})

RECURSIVE Executions(_, _, _, _, _)
(* The autoruns of the graph nodes toRun execute on graph G, one after     *)
(* the other: each execution is logged with the child graphs it made, and  *)
(* the callbacks it registered are kept when their promise has settled or  *)
(* may still settle (a child awaits a deferred input).  canDispose tells   *)
(* whether `dispose` was assigned when the execution began, and `ran`      *)
(* whether run had been called by then.                                    *)
Executions(G, opts, toRun, canDispose, acc) ==
    IF toRun = <<>> THEN acc
    ELSE The({The({The({Executions(G, opts, rest, canDispose, next)
                        : next \in {[pending |->
                                        IF \/ done.promise.state \in {"resolved", "rejected"}
                                           \/ \E i \in 1..Len(done.runs) :
                                                 done.runs[i].awaiting # {}
                                        THEN Append(acc.pending,
                                                    [node |-> dNode.name,
                                                     exec |-> Len(acc.executions) + 1,
                                                     canDispose |-> canDispose])
                                        ELSE acc.pending,
                                     executions |->
                                        Append(acc.executions,
                                               [node |-> dNode.name,
                                                over |-> G.inputs,
                                                canDispose |-> canDispose,
                                                ran |-> acc.ran,
                                                completed |-> <<>>] @@ done),
                                     ran |-> acc.ran]}})
                   : done \in {waitForFulfillment(G, opts, dNode)}})
              : dNode \in {Head(toRun)}, rest \in {Tail(toRun)}})

(* The graph nodes whose autorun is active and is scheduled by the step    *)
(* from G to H, in the order of the node table.                            *)
Scheduled(G, H, observers) ==
    SelectSeq(G.nodes, LAMBDA dNode : /\ dNode.name \in DOMAIN observers
                                      /\ observers[dNode.name] = "active"
                                      /\ NodeNotified(G, H, dNode))

(* The executions that the step from G to H schedules. *)
Reactions(G, H, opts, observers, acc) ==
    The({Executions(H, opts, toRun, TRUE, acc) : toRun \in {Scheduled(G, H, observers)}})

RECURSIVE Writes(_, _, _, _, _)
(* InputsDNode.setValue for each pair of `written`, in order, each         *)
(* followed by the executions it schedules.                                *)
Writes(G, written, opts, observers, acc) ==
    IF written = <<>> THEN acc
    ELSE The({The({Writes(H, rest, opts, observers, next)
                   : next \in {Reactions(G, H, opts, observers, acc)}})
              : H \in {[G EXCEPT !.inputs = SetKey(G.inputs, written[1][1], written[1][2])]},
                rest \in {Tail(written)}})

(***************************************************************************)
(* Construction: the nodes the constructor makes and the edges _build      *)
(* stores.                                                                 *)
(***************************************************************************)
(* A variant of newDNode in which a transform node need not have params. *)
newDNodeParamsOptional(nodeDef) ==
    LET graphDef == Get(nodeDef, "graphDef")
    IN CASE nodeDef.type = "transform" ->
              (IF "fn" \notin DOMAIN nodeDef \/ nodeDef.fn \notin transformFns
               THEN Thrown("Error")
               ELSE nodeDef)
         [] nodeDef.type = "graph" ->
              (IF Truthy(Get(nodeDef, "isTemplate")) \/ IsString(graphDef)
                  \/ Truthy(Get(nodeDef, "inputs"))
               THEN nodeDef
               ELSE IF "defs" \notin DOMAIN graphDef THEN Thrown("TypeError")
               ELSE IF \E i \in 1..Len(graphDef.defs) :
                          graphDef.defs[i].type \notin dNodeClasses
               THEN Thrown("TypeError")
               ELSE nodeDef)
         [] OTHER -> nodeDef

(* What new DNodeClass(this, nodeDef) throws, if it does: a transform      *)
(* node whose fn is not registered or that has no params, a graph node     *)
(* that collects the expected inputs of a graphDef that is no list or      *)
(* that declares a node of an unknown type.                                *)
newDNode(nodeDef) ==
    LET graphDef == Get(nodeDef, "graphDef")
    IN CASE nodeDef.type = "transform" ->
              (IF "fn" \notin DOMAIN nodeDef \/ nodeDef.fn \notin transformFns
               THEN Thrown("Error")
               ELSE IF ~Truthy(Get(nodeDef, "params")) THEN Thrown("Error")
               ELSE nodeDef)
         [] nodeDef.type = "graph" ->
              (IF Truthy(Get(nodeDef, "isTemplate")) \/ IsString(graphDef)
                  \/ Truthy(Get(nodeDef, "inputs"))
               THEN nodeDef
               ELSE IF "defs" \notin DOMAIN graphDef THEN Thrown("TypeError")
               ELSE IF \E i \in 1..Len(graphDef.defs) :
                          graphDef.defs[i].type \notin dNodeClasses
               THEN Thrown("TypeError")
               ELSE nodeDef)
         [] OTHER -> nodeDef

(* The first half of _build: the declaration is preprocessed and a node    *)
(* is made from each declaration in turn.  `error` is what was thrown      *)
(* (undefined when nothing was) and `def` the declarations the nodes were  *)
(* made from.                                                              *)
newDNodes(graphDef) ==
    IF \E i \in 1..Len(graphDef) : graphDef[i].type \notin dNodeClasses
    THEN [error |-> Thrown("TypeError"), def |-> <<>>]
    ELSE The({The({IF AnyThrown(made) THEN [error |-> FirstThrown(made), def |-> <<>>]
                   ELSE [error |-> Undefined, def |-> def]
                   : made \in {AsSeq([i \in 1..Len(def) |-> newDNode(def[i])])}})
              : def \in {preprocessGraphDef(graphDef)}})

(* The constructor, were _preprocessGraphDef to work on the declaration    *)
(* it is given rather than on a copy.                                      *)
ConstructedInPlace(graphDef) ==
    [declaration |-> IF \E i \in 1..Len(graphDef) : graphDef[i].type \notin dNodeClasses
                     THEN graphDef
                     ELSE preprocessGraphDef(graphDef),
     made |-> newDNodes(graphDef)]

(* new DGraph(graphDef): _preprocessGraphDef works on a deep copy and      *)
(* each node keeps a deep copy of its declaration, so the declaration the  *)
(* caller holds stays as it was; `made` is the graph's own.                *)
Constructed(graphDef) == [declaration |-> graphDef, made |-> newDNodes(graphDef)]

(* DGraph.collectEdgeDefs(dNode), for the declaration the node keeps. *)
collectEdgeDefs(dNode) ==
    UNION {
        LET propName == getPathProps(dNode.type)[f]
            pathDef == Get(dNode, propName)
            normalizedPaths == normalizePathDef(pathDef)
            n == Len(normalizedPaths.obj)
            interpretSrcsAsList ==
                n > 1 /\ (IsArray(pathDef)
                          \/ \A i \in 1..n :
                                normalizedPaths.obj[i][2] = Str(normalizedPaths.obj[i][1]))
            srcPropName(i) == IF propName \in {"params", "inputs"}
                              THEN normalizedPaths.obj[i][1]
                              ELSE IF interpretSrcsAsList
                              THEN <<propName, IndexString(i - 1)>>
                              ELSE <<propName>>
        IN {[srcNodeId |-> dNode.name,
             srcPropName |-> srcPropName(i),
             dstNodeId |-> srcFromPath(normalizedPaths.obj[i][2].str).nodeId,
             dstValuePath |-> srcFromPath(normalizedPaths.obj[i][2].str).valuePath]
            : i \in {j \in 1..n : IsString(normalizedPaths.obj[j][2])}}
        : f \in 1..Len(getPathProps(dNode.type))}

(* The edges _build would store, were it to stop after the first node. *)
storedEdgesOfFirstNode(def) == collectEdgeDefs(def[1])

(* The edges _build stores once the nodes are made: those of every node    *)
(* made, one edge for each label.                                          *)
storedEdges(def) == UNION {collectEdgeDefs(def[i]) : i \in 1..Len(def)}

(***************************************************************************)
(* The graphs and inputs of the model                                      *)
(***************************************************************************)
Path(segments) == Str(segments)
Field(k, v) == <<<<k>>, v>>

GraphDefs == <<
    \* 1: a static string, an alias and a concat over an array of paths
    <<[name |-> <<"s">>, type |-> "static", value |-> Str(<<"hello, ">>)],
      [name |-> <<"a">>, type |-> "alias", mirror |-> Path(<<"inputs", "x">>)],
      [name |-> <<"c">>, type |-> "transform", fn |-> "concat",
       params |-> Arr(<<Path(<<"s">>), Path(<<"inputs", "x">>)>>)]>>,
    \* 2: a product with a literal number in a mapping
    <<[name |-> <<"m">>, type |-> "transform", fn |-> "mult",
       params |-> Obj(<<Field("amt", Path(<<"inputs", "x">>)), Field("factor", Num(3))>>)]>>,
    \* 3: a property looked up in an input, by a literal key and by an input
    <<[name |-> <<"d">>, type |-> "dereference",
       objectPath |-> Path(<<"inputs", "x">>), propNamePath |-> Str(<<"a">>)]>>,
    <<[name |-> <<"d">>, type |-> "dereference",
       objectPath |-> Path(<<"inputs", "x">>), propNamePath |-> Path(<<"inputs", "y">>)]>>,
    \* 5: a wildcard read of an input
    <<[name |-> <<"w">>, type |-> "alias", mirror |-> Path(<<"inputs", "x", "*", "a">>)]>>,
    \* 6: literals in the string, array and mapping shapes
    <<[name |-> <<"s">>, type |-> "static", value |-> Str(<<"hello, ">>)],
      [name |-> <<"l">>, type |-> "alias", mirror |-> Str(<<"world">>)],
      [name |-> <<"c">>, type |-> "transform", fn |-> "concat",
       params |-> Arr(<<Path(<<"s">>), Str(<<"you">>), Num(5)>>)],
      [name |-> <<"t">>, type |-> "transform", fn |-> "ternary",
       params |-> Obj(<<Field("test", Path(<<"inputs", "x">>)),
                        Field("pass", Str(<<"yes">>)), Field("fail", Bool(FALSE))>>)]>>,
    \* 7: a literal string with a dot in it
    <<[name |-> <<"v">>, type |-> "alias", mirror |-> Str(<<"v1", "0">>)],
      [name |-> <<"a">>, type |-> "alias", mirror |-> Path(<<"inputs", "x">>)]>>,
    \* 8: an echo node beside a static node and a node named with a #
    <<[name |-> <<"e">>, type |-> "echo"],
      [name |-> <<"s">>, type |-> "static", value |-> Num(1)],
      [name |-> <<"#tmp">>, type |-> "static", value |-> Num(2)]>>,
    \* 9: a path into an input, hidden
    <<[name |-> <<"n">>, type |-> "alias", mirror |-> Path(<<"inputs", "x", "a">>)],
      [name |-> <<"h">>, type |-> "alias", mirror |-> Path(<<"inputs", "y">>),
       isHidden |-> Bool(TRUE)]>>,
    \* 10: a search in a collection
    <<[name |-> <<"f">>, type |-> "transform", fn |-> "find",
       params |-> Obj(<<Field("collection", Path(<<"inputs", "x">>)),
                        Field("propName", Str(<<"a">>)),
                        Field("propValue", Path(<<"inputs", "y">>))>>)]>>,
    \* 11: a static node without a value
    <<[name |-> <<"u">>, type |-> "static"],
      [name |-> <<"a">>, type |-> "alias", mirror |-> Path(<<"inputs", "y">>)]>>,
    \* 12: a branch over three static nodes
    <<[name |-> <<"nodeA">>, type |-> "static", value |-> Num(1)],
      [name |-> <<"nodeB">>, type |-> "static", value |-> Num(2)],
      [name |-> <<"nodeC">>, type |-> "static", value |-> Num(3)],
      [name |-> <<"b">>, type |-> "branch", test |-> Path(<<"inputs", "y">>),
       cases |-> Arr(<<Str(<<"a">>), Str(<<"b">>), Str(<<"_default_">>)>>),
       nodeNames |-> Arr(<<Path(<<"nodeA">>), Path(<<"nodeB">>), Path(<<"nodeC">>)>>)]>>,
    \* 13: an echo node that names its input
    <<[name |-> <<"g">>, type |-> "echo", inputName |-> Str(<<"y">>)]>>,
    \* 14: nodes with aliases, as a sequence and as a string
    <<[name |-> <<"s">>, type |-> "static", value |-> Num(1),
       aliases |-> Arr(<<Str(<<"t">>), Str(<<"u">>)>>)],
      [name |-> <<"a">>, type |-> "alias", mirror |-> Path(<<"inputs", "x">>),
       aliases |-> Str(<<"b">>)]>>,
    \* 15: a template mapped over an input, the inputs given as one path
    <<[name |-> <<"mapItem">>, type |-> "graph", isTemplate |-> Bool(TRUE),
       graphDef |-> Defs(<<[name |-> <<"foo">>, type |-> "transform", fn |-> "mult",
                            params |-> Obj(<<Field("amt", Path(<<"inputs", "a">>)),
                                             Field("factor", Num(5))>>)]>>)],
      [name |-> <<"result">>, type |-> "graph", graphDef |-> Str(<<"mapItem">>),
       collectionMode |-> Str(<<"map">>), inputs |-> Path(<<"inputs", "x", "*">>)]>>,
    \* 16: a template mapped over a collection, with the value of a node
    <<[name |-> <<"k">>, type |-> "static", value |-> Num(3)],
      [name |-> <<"each">>, type |-> "graph", isTemplate |-> Bool(TRUE),
       graphDef |-> Defs(<<[name |-> <<"foo">>, type |-> "transform", fn |-> "mult",
                            params |-> Obj(<<Field("amt", Path(<<"inputs", "item", "a">>)),
                                             Field("factor", Path(<<"inputs", "factor">>))>>)]>>)],
      [name |-> <<"r">>, type |-> "graph", graphDef |-> Str(<<"each">>),
       collectionMode |-> Str(<<"map">>),
       inputs |-> Obj(<<Field("collection", Path(<<"inputs", "x">>)),
                        Field("factor", Path(<<"k">>))>>)]>>,
    \* 17: a subgraph that finds its inputs in the graph around it
    <<[name |-> <<"s">>, type |-> "static", value |-> Num(1)],
      [name |-> <<"sub">>, type |-> "graph",
       graphDef |-> Defs(<<[name |-> <<"p">>, type |-> "alias",
                            mirror |-> Path(<<"inputs", "x">>)],
                           [name |-> <<"q">>, type |-> "alias",
                            mirror |-> Path(<<"inputs", "s">>)]>>)]>>,
    \* 18: a subgraph with subgraphs of its own, one that reads an input the
    \* subgraph was handed, with the declaration of a template of the root
    \* graph, and one that reads an input of the root graph
    <<[name |-> <<"tpl">>, type |-> "graph", isTemplate |-> Bool(TRUE),
       graphDef |-> Defs(<<[name |-> <<"p">>, type |-> "alias",
                            mirror |-> Path(<<"inputs", "y">>)]>>)],
      [name |-> <<"mid">>, type |-> "graph",
       graphDef |-> Defs(<<[name |-> <<"m">>, type |-> "alias",
                            mirror |-> Path(<<"inputs", "y">>)],
                           [name |-> <<"near">>, type |-> "graph",
                            graphDef |-> Str(<<"tpl">>)],
                           [name |-> <<"far">>, type |-> "graph",
                            graphDef |-> Defs(<<[name |-> <<"q">>, type |-> "alias",
                                                 mirror |-> Path(<<"inputs", "x">>)]>>)]>>)]>>
>>

(* The option records a graph is constructed with.  echoTemplates is read  *)
(* by template graph nodes only, and is varied for the graphs that         *)
(* declare one.                                                            *)
Options == [echoInputs : BOOLEAN, echoIntermediates : BOOLEAN, echoTemplates : BOOLEAN]
HasTemplate(graphDef) == \E i \in 1..Len(graphDef) : Truthy(Get(graphDef[i], "isTemplate"))
OptionsFor(graphDef) == {o \in Options : o.echoTemplates => HasTemplate(graphDef)}

(* The inputs handed to run: at most MaxInputs keys, each with a plain     *)
(* value or a deferred one that completes with a value or fails.           *)
MaxInputs == 2

InputKeys == {<<"x">>, <<"y">>, <<"s">>, <<"e">>}
ValuesOf(k) ==
    IF k = <<"x">>
    THEN {Num(4), Num(0), NaN, Undefined, Null, Str(<<"world">>),
          Obj(<<Field("a", Num(0))>>), Obj(<<Field("a", Num(7))>>),
          Obj(<< <<<<"a", "b">>, Num(1)>> >>),
          Arr(<<Obj(<<Field("a", Num(7))>>), Obj(<<Field("b", Num(1))>>)>>),
          Arr(<<Obj(<<Field("a", Num(7))>>), Obj(<<Field("a", Num(0))>>)>>),
          Arr(<<Obj(<<Field("a", Num(7))>>), Null>>),
          Arr(<<Deferred([ok |-> Obj(<<Field("a", Num(7))>>)]),
                Deferred([ok |-> Obj(<<Field("a", Num(0))>>)])>>)}
    ELSE IF k = <<"y">> THEN {Num(7), Str(<<"a">>)}
    ELSE {Num(5)}
DeferredValuesOf(k) ==
    IF k = <<"x">>
    THEN {Num(4), Obj(<<Field("a", Num(7))>>),
          Arr(<<Obj(<<Field("a", Num(7))>>), Obj(<<Field("b", Num(1))>>)>>)}
    ELSE IF k = <<"y">> THEN {Str(<<"a">>)}
    ELSE IF k = <<"e">> THEN {Num(5)}
    ELSE {}
FailingKeys == {<<"x">>, <<"y">>}
Entries ==
    UNION {{<<k, v>> : v \in ValuesOf(k)}
           \cup {<<k, Deferred([ok |-> v])>> : v \in DeferredValuesOf(k)} : k \in InputKeys}
    \cup {<<k, Deferred([fail |-> "rejected"])>> : k \in FailingKeys}
RunInputs ==
    {Obj(q) : q \in UNION {{r \in [1..n -> Entries] :
                                \A i, j \in 1..n : i # j => r[i][1] # r[j][1]}
                            : n \in 0..MaxInputs}}

(***************************************************************************)
(* EventEmitter (src/src/EventEmitter.js)                                  *)
(***************************************************************************)
EventNames == {"constructed", "connected", "resolved", "stepped", "error"}

(* new EventEmitter(): `events` holds the listeners of each name, oldest   *)
(* first (a name without an array as one with an empty array).  A listener *)
(* is the function handed to `on`, or the wrapper `once` makes around it;  *)
(* `id` tells the registrations apart.  `registered` and `calls` record    *)
(* the registrations made and the functions applied by trigger.            *)
NoListeners == [events |-> [n \in EventNames |-> <<>>], registered |-> <<>>, calls |-> <<>>]

(* EventEmitter.addListener(name, fn) *)
addListener(E, name, listener) == [E EXCEPT !.events[name] = Append(@, listener)]

(* The place indexOf(fn) finds: the first listener that is fn itself (0    *)
(* when there is none).  A wrapper is a function of its own.               *)
indexOf(listeners, fn) ==
    IF \E i \in 1..Len(listeners) : ~listeners[i].wrapper /\ listeners[i].fn = fn
    THEN MinOf({i \in 1..Len(listeners) : ~listeners[i].wrapper /\ listeners[i].fn = fn})
    ELSE 0

(* EventEmitter.removeListener(name, fn) *)
removeListener(E, name, fn) ==
    LET index == indexOf(E.events[name], fn)
    IN IF index = 0 THEN E
       ELSE [E EXCEPT !.events[name] = SubSeq(@, 1, index - 1) \o SubSeq(@, index + 1, Len(@))]

RECURSIVE forEachListener(_, _, _, _)
(* this.events[name].forEach(fn => fn.apply(this, args)) from place k on:  *)
(* forEach goes by index over the array as it is when it gets there.  The  *)
(* wrapper of `once` calls removeListener(name, fn) and then fn.           *)
forEachListener(E, name, k, index) ==
    IF k > Len(E.events[name]) THEN E
    ELSE LET listener == E.events[name][k]
             R == IF listener.wrapper THEN removeListener(E, name, listener.fn) ELSE E
         IN forEachListener([R EXCEPT !.calls = Append(@, [id |-> listener.id, name |-> name,
                                                            index |-> index])],
                            name, k + 1, index)

(* EventEmitter.trigger(name, ...args); `index` is the place of the event  *)
(* in the record of the events triggered.                                  *)
trigger(E, name, index) == forEachListener(E, name, 1, index)

RECURSIVE triggerAll(_, _, _)
(* trigger for each event of `log` after the first `from`. *)
triggerAll(E, from, log) ==
    IF from >= Len(log) THEN E
    ELSE triggerAll(trigger(E, log[from + 1].name, from + 1), from + 1, log)

(***************************************************************************)
(* State                                                                   *)
(***************************************************************************)
VARIABLES
    graphDefinition,  \* the declaration the graph was constructed from
    options,          \* the graph's option record
    nodes,            \* the node table (_graph), in insertion order
    inputsValue,      \* the inputs node's observable _value
    handlers,         \* completion handlers attached to deferred inputs
    runState,         \* "idle", "threw" (run threw) or "returned" (a promise)
    runInputs,        \* the argument of run
    promise,          \* the promise run returned: its state and its value
    observer,         \* run's autorun: "none", "active" or "disposed"
    events,           \* the events triggered, oldest first
    connected,        \* whether isConnected has resolved
    nodeValue,        \* the _value of each graph node that is not a template
    nodeObserver,     \* each graph node's autorun: "none", "active" or "disposed"
    pending,          \* settled promises of child runs whose callback has yet to run
    executions,       \* the executions of graph nodes' autoruns, oldest first
    construction,     \* "none" (before new DGraph), "done" or "threw"
    dNodes,           \* the nodes _build made, one for each declaration, in order
    lifecycle,        \* `constructed` and `connected` as triggered, with the node
                      \* table and the edges of the graph at that moment
    edges,            \* the edges stored in _graph (getDEdges)
    util,             \* a use of object-path-utils: the arguments, the functions
                      \* applied so far and what each returned
    emitter           \* the graph as an EventEmitter: the listeners of each
                      \* event, and the registrations and the invocations made

vars == <<graphDefinition, options, nodes, inputsValue, handlers, runState,
          runInputs, promise, observer, events, connected, nodeValue, nodeObserver,
          pending, executions, construction, dNodes, lifecycle, edges, util, emitter>>

(* No use of the path utilities on their own. *)
NoUse == [obj |-> Undefined, path |-> <<>>, applied |-> <<>>, results |-> <<>>]

Graph == [nodes |-> nodes, inputs |-> inputsValue, values |-> nodeValue, settled |-> {},
          super |-> NoGraph]
NoPromise == [state |-> "none", value |-> Undefined]

(* new DGraph(graphDefinition, name, options) *)
Init ==
    /\ graphDefinition \in Range(GraphDefs)
    /\ options \in OptionsFor(graphDefinition)
    /\ nodes = NodeTable(preprocessGraphDef(graphDefinition))
    /\ connected = FALSE
    /\ nodeValue = [n \in GraphNodeNames(nodes) |-> Undefined]
    /\ nodeObserver = [n \in GraphNodeNames(nodes) |-> "none"]
    /\ pending = <<>>
    /\ executions = <<>>
    /\ inputsValue = Obj(<<>>)
    /\ handlers = {}
    /\ runState = "idle"
    /\ runInputs = Undefined
    /\ promise = NoPromise
    /\ observer = "none"
    /\ events = <<>>
    /\ construction = "done"
    /\ dNodes = preprocessGraphDef(graphDefinition)
    /\ lifecycle = <<[name |-> "constructed", nodes |-> nodes, edges |-> {}]>>
    /\ edges = {}
    /\ util = NoUse
    /\ emitter = NoListeners

(* run(inputs) *)
Run(inputs) ==
    LET missingInputs == {n \in collectExpectedInputNames(graphDefinition) :
                            n \notin Range(Keys(inputs))}
        Started(written) ==
            \E first \in {Recomputation([Graph EXCEPT !.inputs = written], options, FALSE,
                                        [state |-> "pending", value |-> Undefined], events)} :
                /\ runState' = "returned"
                /\ promise' = first.promise
                /\ observer' = "active"
                /\ events' = first.events
    IN /\ construction = "done"
       /\ runState = "idle"
       /\ runInputs' = inputs
       /\ IF missingInputs # {}
          THEN /\ runState' = "threw"
               /\ UNCHANGED <<inputsValue, handlers, promise, observer, events,
                              pending, executions>>
          ELSE \E set \in {setInputs(Graph, inputs)} :
                 \E written \in {SetAll(inputsValue, set.written)} :
                    /\ inputsValue' = written
                    /\ handlers' = set.attached
                    /\ \E G \in {Graph}, was \in {[pending |-> pending,
                                                     executions |-> executions,
                                                     ran |-> TRUE]} :
                          \E acc \in {Writes(G, set.written, options, nodeObserver, was)} :
                             /\ pending' = acc.pending
                             /\ executions' = acc.executions
                    /\ IF set.threw
                       THEN /\ runState' = "threw"
                            /\ UNCHANGED <<promise, observer, events>>
                       ELSE Started(written)
       /\ UNCHANGED <<construction, dNodes, lifecycle, edges, util>>
       /\ emitter' = triggerAll(emitter, Len(events), events')
       /\ UNCHANGED <<graphDefinition, options, nodes, connected, nodeValue, nodeObserver>>

(* A deferred input completes with a value: its handler writes the value   *)
(* to the inputs node, and the autoruns the write reaches run before the   *)
(* handler returns.                                                        *)
Complete(h) ==
    /\ h \in handlers
    /\ "ok" \in DOMAIN h.outcome
    /\ handlers' = handlers \ {h}
    /\ \E H \in {[Graph EXCEPT !.inputs = SetKey(inputsValue, h.key, h.outcome.ok)]} :
          /\ inputsValue' = H.inputs
          /\ IF observer = "active" /\ AutorunNotified(Graph, options, H)
             THEN \E again \in {Recomputation(H, options, TRUE, promise, events)} :
                     /\ promise' = again.promise
                     /\ observer' = again.observer
                     /\ events' = again.events
             ELSE UNCHANGED <<promise, observer, events>>
          /\ \E G \in {Graph}, was \in {[pending |-> pending, executions |-> executions,
                                           ran |-> TRUE]} :
                \E acc \in {Reactions(G, H, options, nodeObserver, was)} :
                   /\ pending' = acc.pending
                   /\ executions' = acc.executions
    /\ UNCHANGED <<construction, dNodes, lifecycle, edges, util>>
    /\ emitter' = triggerAll(emitter, Len(events), events')
    /\ UNCHANGED <<graphDefinition, options, nodes, runState, runInputs, connected,
                   nodeValue, nodeObserver>>

(* A variant of Fail in which the failure of a deferred input rejects the  *)
(* run and is reported as an `error`.                                      *)
FailRejectingTheRun(h) ==
    /\ h \in handlers
    /\ "fail" \in DOMAIN h.outcome
    /\ handlers' = handlers \ {h}
    /\ promise' = IF promise.state = "pending"
                  THEN [state |-> "rejected", value |-> Thrown(h.outcome.fail)]
                  ELSE promise
    /\ events' = Append(events, [name |-> "error", error |-> Thrown(h.outcome.fail)])
    /\ UNCHANGED <<construction, dNodes, lifecycle, edges, util>>
    /\ emitter' = triggerAll(emitter, Len(events), events')
    /\ UNCHANGED <<graphDefinition, options, nodes, inputsValue, runState, runInputs,
                   observer, connected, nodeValue, nodeObserver, pending, executions>>

(* A deferred input fails: setInputs gave `then` no rejection handler.     *)
Fail(h) ==
    /\ h \in handlers
    /\ "fail" \in DOMAIN h.outcome
    /\ handlers' = handlers \ {h}
    /\ UNCHANGED <<construction, dNodes, lifecycle, edges, util>>
    /\ UNCHANGED emitter
    /\ UNCHANGED <<graphDefinition, options, nodes, inputsValue, runState, runInputs,
                   promise, observer, events, connected, nodeValue, nodeObserver,
                   pending, executions>>

(* The callback _build gives Promise.all: the edges of every node are      *)
(* stored, isConnected resolves, `connected` is triggered, and each        *)
(* graph node that was built creates its autorun, which executes at once,  *)
(* before `dispose` is assigned.  A graph node whose template is not       *)
(* found is not built.                                                     *)
Connect ==
    LET isBuilt(i) == /\ nodes[i].name \in GraphNodeNames(nodes)
                      /\ ~IsUndefined(templateGraphDef(Graph, nodes[i]))
    IN /\ construction = "done"
       /\ ~connected
       /\ connected' = TRUE
       /\ \E built \in {SelectIdx(nodes, isBuilt)} :
             /\ nodeObserver' = [n \in DOMAIN nodeObserver |->
                    IF \E i \in 1..Len(built) : built[i].name = n THEN "active" ELSE "none"]
             /\ \E G \in {Graph}, was \in {[pending |-> pending,
                                              executions |-> executions,
                                              ran |-> runState # "idle"]} :
                   \E acc \in {Executions(G, options, built, FALSE, was)} :
                      /\ pending' = acc.pending
                      /\ executions' = acc.executions
       /\ edges' = storedEdges(dNodes)
       /\ lifecycle' = Append(lifecycle, [name |-> "connected", nodes |-> nodes,
                                           edges |-> edges'])
       /\ emitter' = trigger(emitter, "connected", Len(lifecycle) + 1)
       /\ UNCHANGED <<construction, dNodes, graphDefinition, options, nodes, inputsValue, util,
                      handlers,
                      runState, runInputs, promise, observer, events, nodeValue>>

(* The deferred input `key` of child i of the execution whose callbacks    *)
(* are pending[j] completes: the child's completion handler runs, and the  *)
(* promise the callbacks were handed to settles when the child's promise   *)
(* settles it.  A promise that has settled stays as it is.                 *)
ChildComplete(j, i, key) ==
    /\ j \in 1..Len(pending)
    /\ \E e \in {pending[j].exec} :
          /\ i \in 1..Len(executions[e].runs)
          /\ key \in executions[e].runs[i].awaiting
          /\ \E dNode \in {getDNode(Graph, pending[j].node)} :
             \E p \in {ChildCompletion(Graph, templateGraphDef(Graph, dNode).defs, options,
                                       executions[e].runs[i], key)} :
             \E runs \in {[executions[e].runs EXCEPT
                              ![i] = [@ EXCEPT !.promise = p, !.awaiting = @ \ {key}]]} :
             \E all \in {IF executions[e].promise.state = "pending"
                         THEN Combined(AsSeq([n \in 1..Len(runs) |-> runs[n].promise]),
                                       Get(dNode, "collectionMode") = Str(<<"map">>))
                         ELSE executions[e].promise} :
                /\ executions' = [executions EXCEPT
                                     ![e] = [@ EXCEPT !.runs = runs, !.promise = all,
                                                      !.completed = Append(@, i)]]
                /\ pending' = IF /\ all.state = "pending"
                                  /\ \A n \in 1..Len(runs) : runs[n].awaiting = {}
                               THEN SubSeq(pending, 1, j - 1)
                                    \o SubSeq(pending, j + 1, Len(pending))
                               ELSE pending
    /\ UNCHANGED <<construction, dNodes, lifecycle, edges, util>>
    /\ UNCHANGED emitter
    /\ UNCHANGED <<graphDefinition, options, nodes, inputsValue, handlers, runState,
                   runInputs, promise, observer, events, connected, nodeValue,
                   nodeObserver>>

(* The callbacks that have been pending longest among those whose promise  *)
(* has settled.                                                            *)
Ready == {j \in 1..Len(pending) :
            executions[pending[j].exec].promise.state \in {"resolved", "rejected"}}

(* The callback _runOnObj or _runAsMap gave `then` runs: it disposes the   *)
(* node's autorun if `dispose` was assigned when the autorun executed,     *)
(* and resolveNode sets the node's value, on which the autoruns that       *)
(* observe the node execute; a rejection is only logged.                   *)
Settle ==
    /\ Ready # {}
    /\ \E j \in {MinOf(Ready)} :
       \E cb \in {[node |-> pending[j].node, canDispose |-> pending[j].canDispose,
                   promise |-> executions[pending[j].exec].promise]},
          rest \in {SubSeq(pending, 1, j - 1) \o SubSeq(pending, j + 1, Len(pending))} :
          /\ nodeObserver' = IF cb.canDispose
                              THEN [nodeObserver EXCEPT ![cb.node] = "disposed"]
                              ELSE nodeObserver
          /\ IF cb.promise.state = "resolved"
             THEN \E H \in {[Graph EXCEPT !.values[cb.node] = cb.promise.value,
                                           !.settled = {cb.node}]} :
                    /\ nodeValue' = H.values
                    /\ IF observer = "active" /\ AutorunNotified(Graph, options, H)
                       THEN \E again \in {Recomputation(H, options, TRUE, promise, events)} :
                               /\ promise' = again.promise
                               /\ observer' = again.observer
                               /\ events' = again.events
                       ELSE UNCHANGED <<promise, observer, events>>
                    /\ \E G \in {Graph}, was \in {[pending |-> rest,
                                                     executions |-> executions,
                                                     ran |-> runState # "idle"]} :
                          \E acc \in {Reactions(G, H, options, nodeObserver, was)} :
                             /\ pending' = acc.pending
                             /\ executions' = acc.executions
             ELSE /\ pending' = rest
                  /\ UNCHANGED <<nodeValue, promise, observer, events, executions>>
    /\ UNCHANGED <<construction, dNodes, lifecycle, edges, util>>
    /\ emitter' = triggerAll(emitter, Len(events), events')
    /\ UNCHANGED <<graphDefinition, options, nodes, inputsValue, handlers, runState,
                   runInputs, connected>>

Next ==
    \/ \E inputs \in RunInputs : Run(inputs)
    \/ \E h \in handlers : Complete(h)
    \/ \E h \in handlers : Fail(h)
    \/ Connect
    \/ \E j \in 1..Len(pending) :
          \E i \in 1..Len(executions[pending[j].exec].runs) :
             \E key \in executions[pending[j].exec].runs[i].awaiting : ChildComplete(j, i, key)
    \/ Settle

Spec == Init /\ [][Next]_vars

(* Every deferred input settles: its handler, once attached, is run.  A     *)
(* handler stays attached until Complete or Fail runs it and a run         *)
(* attaches handlers once, so weak fairness of the two comes to the        *)
(* handler set being empty in the end; for Complete it is stated so.       *)
FairSpec == Spec /\ WF_vars(\E h \in handlers : Fail(h))
                 /\ <>[](handlers = {})

(***************************************************************************)
(* Construction as a step: the declarations a caller may hand to           *)
(* new DGraph, those of GraphDefs and some that a graph should not be      *)
(* made from.                                                              *)
(***************************************************************************)
FaultyDefs == <<
    \* two nodes of one name
    <<[name |-> <<"a">>, type |-> "static", value |-> Num(1)],
      [name |-> <<"a">>, type |-> "static", value |-> Num(2)]>>,
    \* two nodes of one name, of two kinds
    <<[name |-> <<"a">>, type |-> "alias", mirror |-> Path(<<"inputs", "x">>)],
      [name |-> <<"b">>, type |-> "static", value |-> Num(1)],
      [name |-> <<"a">>, type |-> "static", value |-> Num(2)]>>,
    \* a declared node named inputs
    <<[name |-> <<"inputs">>, type |-> "static", value |-> Num(5)],
      [name |-> <<"a">>, type |-> "alias", mirror |-> Path(<<"inputs", "x">>)]>>,
    \* an alias of the name of a declared node
    <<[name |-> <<"a">>, type |-> "static", value |-> Num(1), aliases |-> Str(<<"b">>)],
      [name |-> <<"b">>, type |-> "static", value |-> Num(2)]>>,
    \* a type that is not registered
    <<[name |-> <<"s">>, type |-> "static", value |-> Num(1)],
      [name |-> <<"z">>, type |-> "formula", value |-> Num(2)]>>,
    \* a transform whose function is not registered
    <<[name |-> <<"t">>, type |-> "transform", fn |-> "divide",
       params |-> Obj(<<Field("amt", Path(<<"inputs", "x">>)), Field("factor", Num(2))>>)]>>,
    \* a transform without params
    <<[name |-> <<"s">>, type |-> "static", value |-> Num(1)],
      [name |-> <<"t">>, type |-> "transform", fn |-> "mult"]>>,
    \* a transform without fn
    <<[name |-> <<"t">>, type |-> "transform",
       params |-> Obj(<<Field("amt", Path(<<"inputs", "x">>)), Field("factor", Num(2))>>)]>>
    >>

(* Before new DGraph(graphDefinition, name, options) *)
BuildInit ==
    /\ graphDefinition \in Range(GraphDefs) \cup Range(FaultyDefs)
    /\ options \in OptionsFor(graphDefinition)
    /\ construction = "none"
    /\ dNodes = <<>>
    /\ nodes = <<>>
    /\ lifecycle = <<>>
    /\ edges = {}
    /\ util = NoUse
    /\ emitter = NoListeners
    /\ connected = FALSE
    /\ nodeValue = <<>>
    /\ nodeObserver = <<>>
    /\ pending = <<>>
    /\ executions = <<>>
    /\ inputsValue = Obj(<<>>)
    /\ handlers = {}
    /\ runState = "idle"
    /\ runInputs = Undefined
    /\ promise = NoPromise
    /\ observer = "none"
    /\ events = <<>>

(* new DGraph(graphDefinition, name, options): the constructor and the     *)
(* synchronous part of _build.  When it throws there is no graph; else     *)
(* every node is in the node table when `constructed` is triggered.        *)
Construct ==
    /\ construction = "none"
    /\ \E new \in {Constructed(graphDefinition)} :
          /\ graphDefinition' = new.declaration
          /\ IF IsThrown(new.made.error)
             THEN /\ construction' = "threw"
                  /\ UNCHANGED <<dNodes, nodes, nodeValue, nodeObserver, lifecycle, emitter>>
             ELSE /\ construction' = "done"
                  /\ dNodes' = new.made.def
                  /\ nodes' = NodeTable(new.made.def)
                  /\ nodeValue' = [n \in GraphNodeNames(NodeTable(new.made.def)) |-> Undefined]
                  /\ nodeObserver' = [n \in GraphNodeNames(NodeTable(new.made.def)) |-> "none"]
                  /\ lifecycle' = Append(lifecycle,
                                         [name |-> "constructed",
                                          nodes |-> NodeTable(new.made.def),
                                          edges |-> edges])
                  /\ emitter' = trigger(emitter, "constructed", Len(lifecycle) + 1)
    /\ UNCHANGED <<options, inputsValue, handlers, runState, runInputs, promise, observer, util,
                   events, connected, pending, executions, edges>>

(* Construction alone, up to the callback that connects the graph; the     *)
(* callback is a microtask, which runs once the constructor has returned.  *)
BuildNext == Construct \/ Connect
BuildSpec == BuildInit /\ [][BuildNext]_vars /\ WF_vars(Connect)

(* Construction and all that may follow it. *)
LifeNext == Construct \/ Next
LifeSpec == BuildInit /\ [][LifeNext]_vars

(***************************************************************************)
(* The path utilities on their own: a value and a path are chosen, and     *)
(* getValueAtPath or getValueAtPathWithArraySupport is applied to them, or *)
(* flattenObject and expandObject in turn.                                 *)
(***************************************************************************)
MaxApplied == 3

UtilObjs == {
    Undefined, Null, Num(7), Str(<<"s">>),
    Obj(<<Field("a", Null)>>),
    Obj(<<Field("a", Num(5))>>),
    Obj(<<Field("a", Obj(<<Field("b", Num(1))>>))>>),
    Obj(<<Field("a", Obj(<<>>)), Field("b", Num(1))>>),
    Obj(<<Field("a", Arr(<<Num(1), Num(2)>>))>>),
    Obj(<< <<<<"a", "b">>, Num(1)>> >>),
    Obj(<<Field("a", Obj(<< <<<<"b", "c">>, Num(1)>> >>))>>),
    Obj(<<Field("things", Arr(<<Obj(<<Field("amount", Num(4))>>),
                                Obj(<<Field("amount", Num(2))>>)>>))>>),
    Obj(<<Field("things", Arr(<<Obj(<<Field("amount", Num(4))>>), Null>>))>>),
    Arr(<<Obj(<<Field("amount", Num(4))>>), Obj(<<Field("amount", Num(2))>>)>>),
    Arr(<<Arr(<<Num(1)>>), Arr(<<Num(2)>>)>>),
    Obj(<<Field("a", Obj(<<Field("*", Arr(<<Num(1), Num(2)>>))>>))>>),
    Obj(<<Field("a", Obj(<<Field("*", Obj(<<Field("b", Arr(<<Num(1), Num(2)>>))>>))>>))>>)}

UtilPaths == {
    <<"a">>, <<"b">>, <<"a", "b">>, <<"a", "b", "c">>, <<"a", "0">>, <<"0">>,
    <<"things", "*", "amount">>, <<"things", "*">>, <<"things", "*", "amount", "x">>,
    <<"*">>, <<"*", "amount">>, <<"a", "*">>, <<"*", "*">>, <<"a", "*", "b", "*">>}

graphVars == <<graphDefinition, options, nodes, inputsValue, handlers, runState,
               runInputs, promise, observer, events, connected, nodeValue, nodeObserver,
               pending, executions, construction, dNodes, lifecycle, edges, emitter>>

UtilInit ==
    /\ util \in {[obj |-> obj, path |-> path, applied |-> <<>>, results |-> <<>>]
                    : obj \in UtilObjs, path \in UtilPaths}
    /\ graphDefinition = <<>>
    /\ options = [echoInputs |-> FALSE, echoIntermediates |-> FALSE, echoTemplates |-> FALSE]
    /\ construction = "none"
    /\ dNodes = <<>>
    /\ nodes = <<>>
    /\ lifecycle = <<>>
    /\ edges = {}
    /\ connected = FALSE
    /\ nodeValue = <<>>
    /\ nodeObserver = <<>>
    /\ pending = <<>>
    /\ executions = <<>>
    /\ inputsValue = Obj(<<>>)
    /\ handlers = {}
    /\ runState = "idle"
    /\ runInputs = Undefined
    /\ promise = NoPromise
    /\ observer = "none"
    /\ events = <<>>
    /\ emitter = NoListeners

Applied(fn, result) ==
    /\ util' = [util EXCEPT !.applied = Append(@, fn), !.results = Append(@, result)]
    /\ UNCHANGED graphVars

(* getValueAtPath(obj, path) *)
GetValueAtPath ==
    /\ util.applied = <<>>
    /\ Applied("getValueAtPath", getValueAtPath(util.obj, util.path))

(* getValueAtPathWithArraySupport(obj, path) *)
GetValueAtPathWithArraySupport ==
    /\ util.applied = <<>>
    /\ Applied("getValueAtPathWithArraySupport",
               getValueAtPathWithArraySupport(util.obj, util.path))

(* flattenObject(obj), of the object chosen or of what expandObject made. *)
FlattenObject ==
    \/ /\ util.applied = <<>>
       /\ IsPlainObject(util.obj)
       /\ Applied("flattenObject", flattenObject(util.obj))
    \/ /\ util.applied # <<>>
       /\ Len(util.applied) < MaxApplied
       /\ util.applied[Len(util.applied)] = "expandObject"
       /\ Applied("flattenObject", flattenObject(util.results[Len(util.results)]))

(* expandObject(obj), of what flattenObject returned. *)
ExpandObject ==
    /\ util.applied # <<>>
    /\ Len(util.applied) < MaxApplied
    /\ util.applied[Len(util.applied)] = "flattenObject"
    /\ Applied("expandObject", expandObject(util.results[Len(util.results)]))

UtilNext == GetValueAtPath \/ GetValueAtPathWithArraySupport \/ FlattenObject
            \/ ExpandObject
UtilSpec == UtilInit /\ [][UtilNext]_vars

(***************************************************************************)
(* The graph as an EventEmitter: listeners are registered and removed      *)
(* and events are triggered.                                               *)
(***************************************************************************)
MaxListeners == 2
MaxTriggers == 3
Fns == {"f", "g"}

allButEmitter == <<graphDefinition, options, nodes, inputsValue, handlers, runState,
                   runInputs, promise, observer, events, connected, nodeValue,
                   nodeObserver, pending, executions, construction, dNodes, lifecycle,
                   edges, util>>

(* The registration of fn for `name`, now. *)
Registration(kind, name, fn) ==
    [kind |-> kind, name |-> name, fn |-> fn, removed |-> FALSE,
     at |-> [lifecycle |-> Len(lifecycle), events |-> Len(events)]]

(* on(name, fn) *)
On(name, fn) ==
    /\ construction = "done"
    /\ Len(emitter.registered) < MaxListeners
    /\ emitter' = [addListener(emitter, name, [id |-> Len(emitter.registered) + 1,
                                                fn |-> fn, wrapper |-> FALSE])
                      EXCEPT !.registered = Append(@, Registration("on", name, fn))]
    /\ UNCHANGED allButEmitter

(* once(name, fn): the listener added is a wrapper around fn. *)
Once(name, fn) ==
    /\ construction = "done"
    /\ Len(emitter.registered) < MaxListeners
    /\ emitter' = [addListener(emitter, name, [id |-> Len(emitter.registered) + 1,
                                                fn |-> fn, wrapper |-> TRUE])
                      EXCEPT !.registered = Append(@, Registration("once", name, fn))]
    /\ UNCHANGED allButEmitter

(* removeListener(name, fn), where it finds fn. *)
RemoveListener(name, fn) ==
    /\ construction = "done"
    /\ indexOf(emitter.events[name], fn) > 0
    /\ \E id \in {emitter.events[name][indexOf(emitter.events[name], fn)].id} :
          emitter' = [removeListener(emitter, name, fn)
                         EXCEPT !.registered[id] = [@ EXCEPT !.removed = TRUE]]
    /\ UNCHANGED allButEmitter

(* trigger(name) *)
Trigger(name) ==
    /\ construction = "done"
    /\ Len(events) < MaxTriggers
    /\ events' = Append(events, [name |-> name])
    /\ emitter' = trigger(emitter, name, Len(events) + 1)
    /\ UNCHANGED <<graphDefinition, options, nodes, inputsValue, handlers, runState,
                   runInputs, promise, observer, connected, nodeValue, nodeObserver,
                   pending, executions, construction, dNodes, lifecycle, edges, util>>

(* A graph that has just been constructed. *)
EmitterInit ==
    /\ Init
    /\ graphDefinition = GraphDefs[1]
    /\ options = [echoInputs |-> FALSE, echoIntermediates |-> FALSE, echoTemplates |-> FALSE]

EmitterNext ==
    \/ \E name \in {"resolved", "stepped"}, fn \in Fns : On(name, fn)
    \/ \E name \in {"resolved", "stepped"}, fn \in Fns : Once(name, fn)
    \/ \E name \in {"resolved", "stepped"}, fn \in Fns : RemoveListener(name, fn)
    \/ \E name \in {"resolved", "stepped"} : Trigger(name)
EmitterSpec == EmitterInit /\ [][EmitterNext]_vars

(* Construction with listeners for its signals: the caller registers       *)
(* them once the constructor has returned; the callback that connects the  *)
(* graph is a microtask and runs after the caller's code, or before what   *)
(* the caller does later.                                                  *)
ListenNext ==
    \/ Construct
    \/ \E name \in {"constructed", "connected"}, fn \in Fns : On(name, fn)
    \/ \E name \in {"constructed", "connected"}, fn \in Fns : Once(name, fn)
    \/ Connect
ListenSpec == BuildInit /\ [][ListenNext]_vars

(***************************************************************************)
(* Properties                                                              *)
(***************************************************************************)
StateNow == getState(Graph, options, FALSE)
Entry(i) == runInputs.obj[i]
EventsNamed(n) == {i \in 1..Len(events) : events[i].name = n}

(* The paths of the leaves of v that are undefined or NaN, a field name    *)
(* contributing its segments and an array element its index.               *)
RECURSIVE AbsentLeaves(_)
AbsentLeaves(v) ==
    IF IsPlainObject(v)
    THEN UNION {{v.obj[i][1] \o q : q \in AbsentLeaves(v.obj[i][2])} : i \in 1..Len(v.obj)}
    ELSE IF IsArray(v)
    THEN UNION {{<<IndexString(i - 1)>> \o q : q \in AbsentLeaves(v.arr[i])}
                    : i \in 1..Len(v.arr)}
    ELSE IF IsUndefined(v) \/ IsNaN(v) THEN {<<>>} ELSE {}

(* v holds, at some depth, a field whose name has a dot in it and under    *)
(* which there is a leaf.                                                  *)
RECURSIVE HasLeaf(_)
HasLeaf(v) == IF IsPlainObject(v) THEN \E i \in 1..Len(v.obj) : HasLeaf(v.obj[i][2])
              ELSE IF IsArray(v) THEN \E i \in 1..Len(v.arr) : HasLeaf(v.arr[i])
              ELSE TRUE
RECURSIVE HasDottedField(_)
HasDottedField(v) ==
    IF IsPlainObject(v)
    THEN \E i \in 1..Len(v.obj) : \/ Len(v.obj[i][1]) > 1 /\ HasLeaf(v.obj[i][2])
                                  \/ HasDottedField(v.obj[i][2])
    ELSE IF IsArray(v) THEN \E i \in 1..Len(v.arr) : HasDottedField(v.arr[i])
    ELSE FALSE

(* Every deferred input of the run completes with a value. *)
AllDeferredsSucceed ==
    \A i \in 1..Len(runInputs.obj) : IsThenable(Entry(i)[2]) => "ok" \in DOMAIN Entry(i)[2].then
RunStarted == runState = "returned" /\ AllDeferredsSucceed

(* All deferred inputs have settled and the state still has a path that    *)
(* getUndefinedPaths reports.                                              *)
Stalled == /\ handlers = {}
           /\ ~IsThrown(StateNow)
           /\ getUndefinedPaths(StateNow) # <<>>

C2_ResolvesOnlyWhenComplete ==
    /\ promise.state = "resolved" => AbsentLeaves(promise.value) = {}
    /\ \A i \in EventsNamed("resolved") : AbsentLeaves(events[i].state) = {}
    /\ \A i \in EventsNamed("stepped") :
          /\ events[i].undefinedPaths # <<>>
          /\ Range(events[i].undefinedPaths) = AbsentLeaves(events[i].state)

(* C3: resolved is emitted at most once for a run, and no event follows    *)
(* it.                                                                     *)
C3_NothingAfterResolved == \A i \in EventsNamed("resolved") : i = Len(events)

(* C4: when a recomputation throws the promise is rejected, and no event   *)
(* follows the error event.                                                *)
C4_NothingAfterError ==
    \A i \in EventsNamed("error") : i = Len(events) /\ promise.state = "rejected"

(* The paths the declarations give in their path-bearing fields, and the   *)
(* input names among them.                                                 *)
PathsDeclared ==
    UNION {UNION {Range(Values(normalizePathDef(Get(graphDefinition[i], f))))
                    : f \in Range(getPathProps(graphDefinition[i].type))}
            : i \in 1..Len(graphDefinition)}
ReferencedInputNames ==
    {<<p.str[2]>> : p \in {q \in PathsDeclared :
                             IsString(q) /\ Len(q.str) > 1 /\ q.str[1] = "inputs"}}
MissingInputs == {n \in ReferencedInputNames : ~HasKey(runInputs, n)}

(* C5: a run whose inputs lack a name that some path-bearing field of a    *)
(* declared node references as inputs.<name> throws, and leaves the inputs *)
(* node empty, attaches no handler, installs no observer and emits         *)
(* nothing.                                                                *)
C5_MissingInputFails ==
    (runState # "idle" /\ MissingInputs # {}) =>
        /\ runState = "threw"
        /\ inputsValue = Obj(<<>>)
        /\ handlers = {}
        /\ observer = "none"
        /\ promise = NoPromise
        /\ events = <<>>

(* A run that was given some inputs, one of them deferred, but not all     *)
(* the graph expects.                                                      *)
C5_Witness ==
    /\ runState = "threw"
    /\ MissingInputs # {}
    /\ \E i \in 1..Len(runInputs.obj) : IsThenable(Entry(i)[2])

(* Whether a key is the name of a node, by the node's kind. *)
NamesNonEcho(k) == \E i \in 1..Len(nodes) : nodes[i].name = k /\ nodes[i].type # "echo"
NamesEcho(k) == \E i \in 1..Len(nodes) : nodes[i].name = k /\ nodes[i].type = "echo"

(* C6: with every expected input given, writing the inputs throws exactly  *)
(* when some key is the name of a node that is not an echo node; a key     *)
(* that is the name of an echo node is written (when no key before it      *)
(* threw).                                                                 *)
C6_KeyOfNonEchoNodeFails ==
    (runState # "idle" /\ MissingInputs = {}) =>
        /\ runState = "threw" <=> \E i \in 1..Len(runInputs.obj) : NamesNonEcho(Entry(i)[1])
        /\ \A i \in 1..Len(runInputs.obj) :
              (/\ NamesEcho(Entry(i)[1])
               /\ ~IsThenable(Entry(i)[2])
               /\ \A j \in 1..i : ~NamesNonEcho(Entry(j)[1]))
              => /\ HasKey(inputsValue, Entry(i)[1])
                 /\ Lookup(inputsValue, Entry(i)[1]) = Entry(i)[2]

(* A run given the name of an echo node and then the name of a static      *)
(* node: the first is written, the second throws.                          *)
C6_Witness ==
    /\ runState = "threw"
    /\ MissingInputs = {}
    /\ Len(runInputs.obj) = 2
    /\ NamesEcho(Entry(1)[1])
    /\ NamesNonEcho(Entry(2)[1])
    /\ inputsValue = Obj(<<Entry(1)>>)

(* Whether the handler of the deferred input under key k is attached. *)
Pending(k) == \E h \in handlers : h.key = k
(* C7: once run has returned, the inputs node holds each non-deferred      *)
(* input under its key, the value of each deferred input that has          *)
(* completed under its key, no key of a deferred input that is pending or  *)
(* has failed, and no other key.                                           *)
C7_DeferredWrittenOnCompletion ==
    runState = "returned" =>
        /\ \A i \in 1..Len(runInputs.obj) :
              IF ~IsThenable(Entry(i)[2])
              THEN HasKey(inputsValue, Entry(i)[1])
                   /\ Lookup(inputsValue, Entry(i)[1]) = Entry(i)[2]
              ELSE IF Pending(Entry(i)[1]) \/ "fail" \in DOMAIN Entry(i)[2].then
              THEN ~HasKey(inputsValue, Entry(i)[1])
              ELSE HasKey(inputsValue, Entry(i)[1])
                   /\ Lookup(inputsValue, Entry(i)[1]) = Entry(i)[2].then.ok
        /\ Range(Keys(inputsValue)) \subseteq Range(Keys(runInputs))
        /\ \A h \in handlers : \E i \in 1..Len(runInputs.obj) :
              Entry(i) = <<h.key, Deferred(h.outcome)>>

(* A run with two deferred inputs, one written and one still pending. *)
C7_Witness ==
    /\ runState = "returned"
    /\ Len(runInputs.obj) = 2
    /\ \A i \in 1..2 : IsThenable(Entry(i)[2]) /\ "ok" \in DOMAIN Entry(i)[2].then
    /\ \E i \in 1..2 : /\ Pending(Entry(i)[1])
                       /\ ~Pending(Entry(3 - i)[1])
                       /\ inputsValue = Obj(<<<<Entry(3 - i)[1], Entry(3 - i)[2].then.ok>>>>)

(* What a transform node's params read, and the mapping handed to its      *)
(* function.                                                               *)
ParamReads(t) == [j \in 1..Len(t.params.obj) |-> getGraphValueAt(Graph, t.params.obj[j][2])]
ParamArgs(t) == Obj([j \in 1..Len(t.params.obj) |-> <<t.params.obj[j][1], ParamReads(t)[j]>>])
TransformNodes == {i \in 1..Len(nodes) : nodes[i].type = "transform"}

DeclaredNames == {graphDefinition[i].name : i \in 1..Len(graphDefinition)} \cup {<<"inputs">>}
(* C9: in every path-bearing field of every declared node, an entry that   *)
(* is not a string, or is a string whose leading segment is not the name   *)
(* of a declared node, is rewritten to the name #literal#<node>#<key> and  *)
(* read by the node as the original value.                                 *)
C9_LiteralsReadAsGiven ==
    \A i \in 1..Len(graphDefinition) :
        \A f \in Range(getPathProps(graphDefinition[i].type)) :
            LET given == normalizePathDef(Get(graphDefinition[i], f))
                kept == Get(getDNode(Graph, graphDefinition[i].name), f)
            IN \A j \in 1..Len(given.obj) :
                  (\/ ~IsString(given.obj[j][2])
                   \/ <<given.obj[j][2].str[1]>> \notin DeclaredNames)
                  => /\ kept.obj[j][2] = Str(Cat(<<"#literal#">>,
                                                 Cat(graphDefinition[i].name,
                                                     Cat(<<"#">>, given.obj[j][1]))))
                     /\ getGraphValueAt(Graph, kept.obj[j][2]) = given.obj[j][2]

(* C10: a dereference node whose object and property name have resolved,   *)
(* the object holding under that name a value that is neither undefined    *)
(* nor NaN, has that value.                                                *)
C10_DereferenceReadsProperty ==
    \A i \in 1..Len(nodes) :
        nodes[i].type = "dereference" =>
            LET object == getGraphValueAt(Graph, nodes[i].objectPath.obj[1][2])
                propName == getGraphValueAt(Graph, nodes[i].propNamePath.obj[1][2])
            IN (/\ IsPlainObject(object)
                /\ IsString(propName)
                /\ HasKey(object, propName.str)
                /\ ~IsUndefined(Lookup(object, propName.str))
                /\ ~IsNaN(Lookup(object, propName.str)))
               => value(Graph, nodes[i]) = Lookup(object, propName.str)

(* What a dereference node's two paths read. *)
DereferenceNodes == {i \in 1..Len(nodes) : nodes[i].type = "dereference"}
ObjectRead(d) == getGraphValueAt(Graph, d.objectPath.obj[1][2])
PropNameRead(d) == getGraphValueAt(Graph, d.propNamePath.obj[1][2])

(* Whether v has a property named by the string key: an own property of    *)
(* an object, an index of an array.                                        *)
HasProperty(v, key) == \/ IsPlainObject(v) /\ HasKey(v, key)
                       \/ Len(key) = 1 /\ Has(v, key[1])

(* C11: a dereference node whose object and property name have resolved,   *)
(* the object having no property of that name, has the value null; one     *)
(* whose object or property name is absent has an absent value.            *)
C11_MissingPropertyIsNull ==
    \A i \in DereferenceNodes :
        (~IsThrown(ObjectRead(nodes[i])) /\ ~IsThrown(PropNameRead(nodes[i]))) =>
            IF IsUndefined(ObjectRead(nodes[i])) \/ IsUndefined(PropNameRead(nodes[i]))
            THEN IsUndefined(value(Graph, nodes[i]))
            ELSE ~HasProperty(ObjectRead(nodes[i]), StringOf(PropNameRead(nodes[i])))
                    => value(Graph, nodes[i]) = Null

(* The declared branch nodes, and the index a branch selects: that of the  *)
(* case equal to what its test reads, else that of '_default_'.            *)
BranchDefs == {i \in 1..Len(graphDefinition) : graphDefinition[i].type = "branch"}
SelectedCase(b) ==
    LET test == getGraphValueAt(Graph, b.test)
        equal == {i \in 1..Len(b.cases.arr) : b.cases.arr[i] = test}
        default == {i \in 1..Len(b.cases.arr) : b.cases.arr[i] = Str(<<"_default_">>)}
    IN IF equal # {} THEN MinOf(equal) ELSE MinOf(default)

(* C12: a branch node's value is the value of the node that nodeNames      *)
(* names at the index of the case equal to the test value, or at the       *)
(* index of '_default_' when no case equals it.                            *)
C12_BranchSelectsNode ==
    \A i \in BranchDefs :
        value(Graph, getDNode(Graph, graphDefinition[i].name)) =
            getGraphValueAt(Graph, graphDefinition[i].nodeNames.arr[SelectedCase(graphDefinition[i])])

(* The declared echo nodes and the input each one names. *)
EchoDefs == {i \in 1..Len(graphDefinition) : graphDefinition[i].type = "echo"}
EchoedInput(e) == IF IsString(Get(e, "inputName")) THEN Get(e, "inputName").str ELSE e.name

(* C13: an echo node's value is the current value of the input named by    *)
(* its inputName, or by its own name when it declares none.                *)
C13_EchoReadsInput ==
    \A i \in EchoDefs :
        value(Graph, getDNode(Graph, graphDefinition[i].name)) =
            Lookup(inputsValue, EchoedInput(graphDefinition[i]))

(* The declared nodes that have aliases, and the alias names of each. *)
AliasedDefs == {i \in 1..Len(graphDefinition) : Truthy(Get(graphDefinition[i], "aliases"))}
AliasNamesOf(nodeDef) == IF IsArray(nodeDef.aliases)
                         THEN {StringOf(nodeDef.aliases.arr[j]) : j \in 1..Len(nodeDef.aliases.arr)}
                         ELSE {StringOf(nodeDef.aliases)}

(* C14: for every declared node with aliases the graph has one alias node  *)
(* per alias name, and the value of each is the value of the node.         *)
C14_AliasesMirrorNode ==
    \A i \in AliasedDefs : \A a \in AliasNamesOf(graphDefinition[i]) :
        /\ Cardinality({j \in 1..Len(nodes) : nodes[j].name = a}) = 1
        /\ getDNode(Graph, a).type = "alias"
        /\ value(Graph, getDNode(Graph, a))
              = value(Graph, getDNode(Graph, graphDefinition[i].name))

(* A run has written the input that a node with an alias mirrors, beside   *)
(* a node with two aliases.                                                *)
C14_Witness ==
    /\ runState = "returned"
    /\ \E i \in AliasedDefs : Cardinality(AliasNamesOf(graphDefinition[i])) = 2
    /\ \E i \in AliasedDefs : \E a \in AliasNamesOf(graphDefinition[i]) :
          /\ value(Graph, getDNode(Graph, graphDefinition[i].name)) = Obj(<<Field("a", Num(7))>>)
          /\ value(Graph, getDNode(Graph, a)) = Obj(<<Field("a", Num(7))>>)

(* The states getState(false) has produced: the one it gives now and the   *)
(* ones the events and the promise carry.                                  *)
StatesSeen ==
    {st \in {StateNow} : ~IsThrown(st)}
    \cup {events[i].state : i \in EventsNamed("stepped") \cup EventsNamed("resolved")}
    \cup (IF promise.state = "resolved" THEN {promise.value} ELSE {})
HashNodes == {i \in 1..Len(nodes) : StartsWithHash(Graph, nodes[i].name)}

StateWithInvisible == getState(Graph, options, TRUE)
TemplateNodes == {i \in 1..Len(nodes) :
                    nodes[i].type = "graph" /\ Truthy(Get(nodes[i], "isTemplate"))}

MapNodes == {n \in GraphNodeNames(nodes) :
                Get(getDNode(Graph, n), "collectionMode") = Str(<<"map">>)}

(* The executions of the autorun of graph node n that made child runs. *)
LaunchesOf(n) ==
    LET made(i) == executions[i].node = n /\ executions[i].promise.state # "none"
    IN SelectIdx(executions, made)

(* Each execution that made runs made one for each element of the          *)
(* collection it read, child i with `item` the i-th element, followed by   *)
(* the other inputs it read.                                               *)
ChildPerElement(n) ==
    \A e \in Range(LaunchesOf(n)) :
       \E collection \in {Lookup(e.inputs, <<"collection">>).arr} :
          /\ Len(e.runs) = Len(collection)
          /\ \A i \in 1..Len(e.runs) :
                /\ Lookup(e.runs[i].args, <<"item">>) = collection[i]
                /\ \A k \in Range(Keys(e.inputs)) \ {<<"collection">>} :
                      Lookup(e.runs[i].args, k) = Lookup(e.inputs, k)

(* A value of the node is the sequence of the states the children of one   *)
(* execution resolved with, in the order of the collection.                *)
ValueInOrder(n) ==
    ~IsUndefined(nodeValue[n]) =>
        \E e \in Range(LaunchesOf(n)) :
           /\ \A i \in 1..Len(e.runs) : e.runs[i].promise.state = "resolved"
           /\ nodeValue[n] = Arr([i \in 1..Len(e.runs) |-> e.runs[i].promise.value])

MappingExample == GraphDefs[15]

(* Nothing is left to happen: the graph is connected, every deferred       *)
(* input has settled and no callback of a graph node is outstanding.       *)
Quiescent == connected /\ handlers = {} /\ pending = <<>>

(* C18: run on the mapping example with the elements {a: 7} and {a: 0}     *)
(* resolves the map node to [{foo: 35}, {foo: 0}], and the run resolves.   *)
C18_MappingExampleResolves ==
    (/\ graphDefinition = MappingExample
     /\ runState = "returned"
     /\ Lookup(inputsValue, <<"x">>) = Arr(<<Obj(<<Field("a", Num(7))>>),
                                             Obj(<<Field("a", Num(0))>>)>>)
     /\ Quiescent)
        => /\ nodeValue[<<"result">>] = Arr(<<Obj(<<Field("foo", Num(35))>>),
                                              Obj(<<Field("foo", Num(0))>>)>>)
           /\ promise.state = "resolved"

(***************************************************************************)
(* Failures of graph nodes                                                 *)
(***************************************************************************)
(* The executions of the autorun of graph node n, oldest first. *)
ExecutionsOf(n) == SelectSeq(executions, LAMBDA e : e.node = n)

(* An execution failed: getInputs threw, the inputs were all there but     *)
(* `collection` was not an array in map mode, or a child's run threw or    *)
(* the promise of the child runs rejected.                                 *)
FailedExecution(e) ==
    \/ IsThrown(e.inputs)
    \/ /\ e.node \in MapNodes
       /\ ~IsThrown(e.inputs)
       /\ ~IsArray(Lookup(e.inputs, <<"collection">>))
       /\ getUndefinedPaths(e.inputs) = <<>>
    \/ e.promise.state \in {"threw", "rejected"}

(* C19: once a run has been called and has not resolved, a graph node      *)
(* whose latest execution failed makes the run reject and emit `error`:    *)
(* when nothing is left to happen, the promise is rejected and an `error`  *)
(* event has been triggered.                                               *)
C19_NodeFailureRejectsRun ==
    \A n \in GraphNodeNames(nodes) :
       \A all \in {ExecutionsOf(n)} :
          (/\ runState = "returned"
           /\ Quiescent
           /\ promise.state # "resolved"
           /\ all # <<>>
           /\ all[Len(all)].ran
           /\ FailedExecution(all[Len(all)]))
             => /\ promise.state = "rejected"
                /\ EventsNamed("error") # {}

(***************************************************************************)
(* When a graph node makes its child graphs                                *)
(***************************************************************************)
(* An input is absent: undefined. *)
AbsentInputs(e) == {k \in Range(Keys(e.inputs)) : IsUndefined(Lookup(e.inputs, k))}

(* C20: an execution of a graph node's autorun that instantiated a child   *)
(* graph happened when the root graph was connected, and read inputs none  *)
(* of which was absent.                                                    *)
C20_ChildGraphsOnceConnectedAndFulfilled ==
    \A i \in 1..Len(executions) :
       executions[i].runs # <<>> =>
          /\ connected
          /\ ~IsThrown(executions[i].inputs)
          /\ AbsentInputs(executions[i]) = {}

(* A graph node made no child graph while an input was absent, and made    *)
(* one when its autorun executed again with every input there.             *)
C20_Witness ==
    \E i, j \in 1..Len(executions) :
       /\ i < j
       /\ executions[i].node = executions[j].node
       /\ ~IsThrown(executions[i].inputs)
       /\ AbsentInputs(executions[i]) # {}
       /\ executions[i].runs = <<>>
       /\ executions[j].runs # <<>>
       /\ connected

(***************************************************************************)
(* Graph nodes in default mode                                             *)
(***************************************************************************)
DefaultNodes == GraphNodeNames(nodes) \ MapNodes

(* C21: in default mode a graph node instantiates one child graph during   *)
(* the parent's run: at most one execution of its autorun after run was    *)
(* called makes a child run, and once the node has its value its autorun   *)
(* is disposed.                                                            *)
C21_OneChildGraphPerRun ==
    \A n \in DefaultNodes :
       /\ Cardinality({i \in 1..Len(executions) :
                         /\ executions[i].node = n
                         /\ executions[i].ran
                         /\ executions[i].runs # <<>>}) <= 1
       /\ ~IsUndefined(nodeValue[n]) => nodeObserver[n] = "disposed"

(***************************************************************************)
(* The value of a graph node                                               *)
(***************************************************************************)
(* v is what an execution of the autorun of graph node n resolved the node *)
(* with: every child run it made has resolved, and v is the state of the   *)
(* one child (in map mode, the sequence of the children's states).         *)
ResolvedBy(n, e, v) ==
    /\ e.runs # <<>> \/ n \in MapNodes
    /\ \A i \in 1..Len(e.runs) : e.runs[i].promise.state = "resolved"
    /\ v = IF n \in MapNodes
           THEN Arr([i \in 1..Len(e.runs) |-> e.runs[i].promise.value])
           ELSE e.runs[1].promise.value

(* C22: a graph node that is not a template has no value until the child   *)
(* runs of one execution of its autorun have all resolved, and the value   *)
(* is then the state the child resolved with (in map mode, the children's  *)
(* states); a run of the parent that shows the node resolves with such a   *)
(* value only.                                                             *)
C22_NoValueBeforeChildResolved ==
    \A n \in GraphNodeNames(nodes) :
       /\ ~IsUndefined(nodeValue[n]) =>
             \E e \in Range(LaunchesOf(n)) : ResolvedBy(n, e, nodeValue[n])
       /\ (promise.state = "resolved" /\ HasKey(promise.value, n)) =>
             \E e \in Range(LaunchesOf(n)) : ResolvedBy(n, e, Lookup(promise.value, n))

(* The parent's run has resolved with the value of a graph node in default *)
(* mode, which is the state its child resolved with.                       *)
C22_Witness ==
    \E n \in DefaultNodes :
       /\ promise.state = "resolved"
       /\ HasKey(promise.value, n)
       /\ IsPlainObject(Lookup(promise.value, n))
       /\ \E e \in Range(LaunchesOf(n)) : e.runs[1].promise.value = Lookup(promise.value, n)

(***************************************************************************)
(* The inputs a graph node finds for itself                                *)
(***************************************************************************)
(* What the path of an expected input is to resolve to in graph G: the     *)
(* value of the node of G that its first segment names; or else the value  *)
(* under that property of G's inputs; or else the value under that         *)
(* property of the root graph's inputs; a failure when there is none.      *)
ExpectedRead(G, path) ==
    IF getDNode(G, <<path[1]>>) # NoNode THEN getGraphValueAt(G, Str(path))
    ELSE IF HasKey(G.inputs, <<path[1]>>) THEN getGraphValueAt(G, Str(<<"inputs">> \o path))
    ELSE IF HasKey(rootGraph(G).inputs, <<path[1]>>)
    THEN getGraphValueAt(rootGraph(G), Str(<<"inputs">> \o path))
    ELSE Thrown("Error")

(* The execution e of the autorun of dNode, a graph node of G without      *)
(* explicit inputs, read what its paths are to resolve to, or failed when  *)
(* one of them is to fail.                                                 *)
ReadAsExpected(G, dNode, e) ==
    hasExplicitInputs(dNode) \/
    \E paths \in {AsSeq(Values(inputSrcs(G, dNode)))} :
       IF \E i \in 1..Len(paths) : IsThrown(ExpectedRead(G, paths[i].str))
       THEN IsThrown(e.inputs)
       ELSE /\ ~IsThrown(e.inputs)
            /\ \A i \in 1..Len(paths) :
                  getValueAtPath(e.inputs, paths[i].str) = ExpectedRead(G, paths[i].str)

RECURSIVE ReadAsExpectedWithin(_, _, _)
(* The same of e and of the executions of the graph nodes of the child     *)
(* graphs e made.                                                          *)
ReadAsExpectedWithin(G, dNode, e) ==
    /\ ReadAsExpected(G, dNode, e)
    /\ \A r \in 1..Len(e.runs) : \A k \in 1..Len(e.runs[r].inner) :
          \E H \in {NewGraph(NodeTable(preprocessGraphDef(templateGraphDef(G, dNode).defs)),
                             e.runs[r].inner[k].over, G)} :
             ReadAsExpectedWithin(H, getDNode(H, e.runs[r].inner[k].node), e.runs[r].inner[k])

(* C23: a graph node without explicit `inputs` resolves each path          *)
(* inputs.<id>... of its child declaration to the value of the node of     *)
(* the parent graph named id, or else to the value under property id of    *)
(* the parent's inputs, or else to that of the root graph's inputs, and    *)
(* fails when there is none: every execution read so, on the inputs the    *)
(* graphs had when it ran.                                                 *)
C23_ImplicitInputsResolve ==
    \A i \in 1..Len(executions) :
       ReadAsExpectedWithin([Graph EXCEPT !.inputs = executions[i].over],
                            getDNode(Graph, executions[i].node), executions[i])


(***************************************************************************)
(* Template graph nodes                                                    *)
(***************************************************************************)
IsTemplateNode(dNode) ==
    dNode # NoNode /\ dNode.type = "graph" /\ Truthy(Get(dNode, "isTemplate"))

RECURSIVE TemplatesUsedWithin(_, _, _)
(* In the execution e of the autorun of dNode, a graph node of G, and in   *)
(* the executions of the graph nodes of the child graphs e made: the node  *)
(* is no template, and when its graphDef names a template, found in G or   *)
(* in a graph around G, each child run began as a run of the template's    *)
(* declaration does.                                                       *)
TemplatesUsedWithin(G, dNode, e) ==
    /\ ~IsTemplateNode(dNode)
    /\ \E t \in {IF IsString(Get(dNode, "graphDef"))
                 THEN getDNodeInAncestors(G, Get(dNode, "graphDef").str)
                 ELSE NoNode} :
          IsTemplateNode(t) =>
             \A r \in 1..Len(e.runs) :
                \/ "completed" \in DOMAIN e /\ r \in Range(e.completed)
                \/ e.runs[r].promise =
                      ChildRun(G, Get(t, "graphDef").defs, options, e.runs[r].args).promise
    /\ \A r \in 1..Len(e.runs) : \A k \in 1..Len(e.runs[r].inner) :
          \E H \in {NewGraph(NodeTable(preprocessGraphDef(templateGraphDef(G, dNode).defs)),
                             e.runs[r].inner[k].over, G)} :
             TemplatesUsedWithin(H, getDNode(H, e.runs[r].inner[k].node),
                                 e.runs[r].inner[k])

(* C24: a graph node declared with isTemplate never instantiates or runs   *)
(* a child graph (it has no execution, no pending callback and no value    *)
(* cell) and its value is the placeholder "Template Node <name>" in every  *)
(* state; a graph node whose graphDef names it, in its own graph or in a   *)
(* graph around it, runs the template's declaration.                       *)
C24_TemplatesAreNeverRun ==
    /\ \A i \in TemplateNodes :
          /\ value(Graph, nodes[i]) = Str(Cat(<<"Template Node ">>, nodes[i].name))
          /\ nodes[i].name \notin DOMAIN nodeValue
          /\ nodes[i].name \notin DOMAIN nodeObserver
          /\ \A j \in 1..Len(pending) : pending[j].node # nodes[i].name
    /\ \A i \in 1..Len(executions) :
          TemplatesUsedWithin([Graph EXCEPT !.inputs = executions[i].over],
                              getDNode(Graph, executions[i].node), executions[i])

(* A graph node of a child graph has run the declaration of a template of  *)
(* the root graph, and its run has resolved.                               *)
C24_Witness ==
    \E i \in 1..Len(executions) : \E r \in 1..Len(executions[i].runs) :
       \E k \in 1..Len(executions[i].runs[r].inner) :
          \E inner \in {executions[i].runs[r].inner[k]},
             H \in {NewGraph(NodeTable(preprocessGraphDef(
                        templateGraphDef(Graph, getDNode(Graph, executions[i].node)).defs)),
                        executions[i].runs[r].inner[k].over, Graph)} :
             \E graphDef \in {Get(getDNode(H, inner.node), "graphDef")} :
                /\ IsString(graphDef)
                /\ getDNode(H, graphDef.str) = NoNode
                /\ IsTemplateNode(getDNodeInAncestors(H, graphDef.str))
                /\ Len(inner.runs) = 1
                /\ inner.runs[1].promise.state = "resolved"
                /\ inner.promise.state = "resolved"


(***************************************************************************)
(* The signals of construction                                             *)
(***************************************************************************)
Fired(n) == {i \in 1..Len(lifecycle) : lifecycle[i].name = n}
NamesIn(table) == {table[i].name : i \in 1..Len(table)}

(* `constructed` and `connected` are triggered at most once each;          *)
(* `constructed` has been triggered once a graph is there, with every      *)
(* declaration of the preprocessed graph in the node table; `connected`    *)
(* is triggered after it, with the edges of every node stored.             *)
SignalsInOrder ==
    /\ Cardinality(Fired("constructed")) = (IF construction = "done" THEN 1 ELSE 0)
    /\ Cardinality(Fired("connected")) = (IF connected THEN 1 ELSE 0)
    /\ \A i \in Fired("constructed") :
          /\ lifecycle[i].nodes = nodes
          /\ NamesIn(preprocessGraphDef(graphDefinition)) = NamesIn(lifecycle[i].nodes)
    /\ \A i \in Fired("connected") :
          /\ \E j \in Fired("constructed") : j < i
          /\ lifecycle[i].edges = edges
          /\ \A k \in 1..Len(nodes) : collectEdgeDefs(nodes[k]) \subseteq lifecycle[i].edges

(* C25: every graph fires `constructed` exactly once, after all its nodes  *)
(* are in the node table, and `connected` exactly once, after              *)
(* `constructed` and after the edges of every node have been stored.       *)
C25_ConstructedThenConnected ==
    /\ []SignalsInOrder
    /\ (construction = "done") ~> (Cardinality(Fired("connected")) = 1)

(* A graph of several nodes is connected, edges stored, both signals       *)
(* triggered.                                                              *)
C25_Witness ==
    /\ Len(lifecycle) = 2
    /\ lifecycle[1].name = "constructed" /\ lifecycle[2].name = "connected"
    /\ Len(lifecycle[1].nodes) > 2
    /\ Cardinality(lifecycle[2].edges) > 1


(***************************************************************************)
(* Names of the declaration                                                *)
(***************************************************************************)
(* The declaration names no node twice and none `inputs`. *)
NamesAreUnique(graphDef) ==
    /\ \A i, j \in 1..Len(graphDef) : i # j => graphDef[i].name # graphDef[j].name
    /\ \A i \in 1..Len(graphDef) : graphDef[i].name # <<"inputs">>

(* The node the table holds under the name of the declaration was made     *)
(* from that declaration.                                                  *)
PresentUnderItsName(table, nodeDef) ==
    \E k \in 1..Len(table) : /\ table[k].name = nodeDef.name
                             /\ table[k].type = nodeDef.type
                             /\ Get(table[k], "value") = Get(nodeDef, "value")

(* C26: a declaration in which two nodes have one name, or in which a node *)
(* is named `inputs`, is refused at construction; in a graph that was      *)
(* constructed every declared node is in the node table under its own      *)
(* name.                                                                   *)
C26_NameCollisionsRefused ==
    construction = "done" =>
        /\ NamesAreUnique(graphDefinition)
        /\ \A i \in 1..Len(graphDefinition) : PresentUnderItsName(nodes, graphDefinition[i])
(***************************************************************************)
(* Declarations that construction refuses                                  *)
(***************************************************************************)
UnknownType(nodeDef) == nodeDef.type \notin dNodeClasses
UnknownFn(nodeDef) ==
    nodeDef.type = "transform" /\ ("fn" \notin DOMAIN nodeDef \/ nodeDef.fn \notin transformFns)
NoParams(nodeDef) == nodeDef.type = "transform" /\ ~Truthy(Get(nodeDef, "params"))

C28_DeclarationUnchanged == [][graphDefinition' = graphDefinition]_vars

(* A graph that was constructed and run, whose node table has an alias     *)
(* node and the inputs node that the declaration has not, and a declared   *)
(* node whose path field was rewritten.                                    *)
C28_Witness ==
    /\ construction = "done" /\ runState = "returned" /\ connected
    /\ \E k \in 1..Len(nodes) :
          /\ nodes[k].type = "alias"
          /\ \A i \in 1..Len(graphDefinition) : graphDefinition[i].name # nodes[k].name
    /\ \E k \in 1..Len(nodes) : nodes[k].type = "inputs"
    /\ \A i \in 1..Len(graphDefinition) : graphDefinition[i].type # "inputs"
    /\ \E i \in 1..Len(graphDefinition) :
          \E k \in 1..Len(nodes) : /\ nodes[k].name = graphDefinition[i].name
                                   /\ nodes[k] # graphDefinition[i]
(***************************************************************************)
(* Edges and reads                                                         *)
(***************************************************************************)
(* The nodes of the table that the `value` accessor of dNode reads: the    *)
(* leading segment of each of its paths, where it names a node.            *)
NodesRead(table, dNode) ==
    {srcFromPath(srcPathsOf(dNode)[i].str).nodeId :
        i \in {j \in 1..Len(srcPathsOf(dNode)) :
                  /\ IsString(srcPathsOf(dNode)[j])
                  /\ srcFromPath(srcPathsOf(dNode)[j].str).nodeId \in NamesIn(table)}}

(* getDEdges() has an edge from each node of the table to every node that  *)
(* its `value` reads.                                                      *)
EdgesMirrorReads(table, stored) ==
    \A k \in 1..Len(table) :
        \A read \in NodesRead(table, table[k]) :
            \E edge \in stored : edge.srcNodeId = table[k].name /\ edge.dstNodeId = read

(* C29: once the graph is connected, every read that the `value` accessor  *)
(* of a node performs on a node of the graph has an edge in getDEdges()    *)
(* from the reading node to the node read.                                 *)
C29_EdgesMirrorReads == connected => EdgesMirrorReads(nodes, edges)
(***************************************************************************)
(* Reads of nodes that are missing or have no value                        *)
(***************************************************************************)
(* C30: in a graph that was run, a read of a path whose leading segment    *)
(* names no node of the graph yields undefined and does not throw, and a   *)
(* read of a node whose value is undefined yields undefined, whatever the  *)
(* value path.                                                             *)
C30_MissingNodeReadsAbsent ==
    runState # "idle" =>
        \E G \in {Graph} :
            \A k \in 1..Len(nodes) :
                \A srcPath \in Range(ReadsOf(G, nodes[k])) :
                    IsString(srcPath) =>
                        \E dNode \in {getDNode(G, srcFromPath(srcPath.str).nodeId)},
                           result \in {getGraphValueAt(G, srcPath)} :
                            (dNode = NoNode \/ IsUndefined(value(G, dNode)))
                                => IsUndefined(result)
(***************************************************************************)
(* getValueAtPath                                                          *)
(***************************************************************************)
(* What is found at the path: the value reached by taking each segment as  *)
(* an own property of the value reached so far, undefined when some        *)
(* segment is no own property of it (null and scalars have none).          *)
RECURSIVE Descend(_, _)
Descend(v, path) ==
    IF path = <<>> THEN v
    ELSE IF Has(v, path[1]) THEN Descend(Prop(v, path[1]), Tail(path))
    ELSE Undefined

(* C31: getValueAtPath(value, path) never throws: it returns undefined     *)
(* when a segment of the path is missing from the value reached so far,    *)
(* be that an object, an array, null or a scalar, and else the value       *)
(* found at the path.                                                      *)
C31_GetValueAtPathNeverFails ==
    util.applied = <<"getValueAtPath">>
        => /\ ~IsThrown(util.results[1])
           /\ util.results[1] = Descend(util.obj, util.path)
(***************************************************************************)
(* Wildcard reads                                                          *)
(***************************************************************************)
StarsOf(path) == {i \in 1..Len(path) : path[i] = "*"}
BeforeStar(path) == SubSeq(path, 1, MinOf(StarsOf(path)) - 1)
AfterStar(path) == SubSeq(path, MinOf(StarsOf(path)) + 1, Len(path))

(* What the part of the path before the "*" resolves to: the value itself  *)
(* when that part is empty.                                                *)
ResolvedBefore(obj, path) ==
    IF BeforeStar(path) = <<>> THEN obj ELSE getValueAtPath(obj, BeforeStar(path))

(* getValueAtPath of each element of the array s, all of them read even    *)
(* when one throws.                                                        *)
EachAt(s, after) ==
    [i \in 1..Len(s.arr) |-> IF after = <<>> THEN s.arr[i]
                             ELSE getValueAtPath(s.arr[i], after)]

(* C32: for a path before.*.after where before resolves to an array s the  *)
(* wildcard read returns an array as long as s whose i-th element is       *)
(* getValueAtPath(s[i], after) (and fails as that does when it fails);     *)
(* for before.* it returns the elements of s; an empty before stands for   *)
(* the value itself.                                                       *)
C32_WildcardMapsTheArray ==
    (/\ util.applied = <<"getValueAtPathWithArraySupport">>
     /\ Cardinality(StarsOf(util.path)) = 1
     /\ IsArray(ResolvedBefore(util.obj, util.path)))
    => \E each \in {EachAt(ResolvedBefore(util.obj, util.path), AfterStar(util.path))} :
          IF AnyThrown(each) THEN util.results[1] = FirstThrown(each)
          ELSE /\ IsArray(util.results[1])
               /\ Len(util.results[1].arr) = Len(each)
               /\ \A i \in 1..Len(each) : util.results[1].arr[i] = each[i]

(* arr.*.amount over [{amount: 4}, {amount: 2}] has given [4, 2]. *)
C32_Witness ==
    /\ util.applied = <<"getValueAtPathWithArraySupport">>
    /\ util.obj = Obj(<<Field("things", Arr(<<Obj(<<Field("amount", Num(4))>>),
                                              Obj(<<Field("amount", Num(2))>>)>>))>>)
    /\ util.path = <<"things", "*", "amount">>
    /\ util.results = <<Arr(<<Num(4), Num(2)>>)>>
(* C33: the wildcard read throws when the part of the path before the "*"  *)
(* does not resolve to an array, and throws for every path that has more   *)
(* than one "*" segment.                                                   *)
C33_WildcardFailsOffArrays ==
    util.applied = <<"getValueAtPathWithArraySupport">>
        => /\ Cardinality(StarsOf(util.path)) > 1 => IsThrown(util.results[1])
           /\ (/\ Cardinality(StarsOf(util.path)) = 1
               /\ ~IsArray(ResolvedBefore(util.obj, util.path)))
              => IsThrown(util.results[1])
(***************************************************************************)
(* flattenObject and expandObject                                          *)
(***************************************************************************)
(* Deep equality of two values, whatever the order of their properties. *)
RECURSIVE DeepEqual(_, _)
DeepEqual(a, b) ==
    IF IsPlainObject(a) /\ IsPlainObject(b)
    THEN /\ Range(Keys(a)) = Range(Keys(b))
         /\ \A k \in Range(Keys(a)) : DeepEqual(Lookup(a, k), Lookup(b, k))
    ELSE IF IsArray(a) /\ IsArray(b)
    THEN /\ Len(a.arr) = Len(b.arr)
         /\ \A i \in 1..Len(a.arr) : DeepEqual(a.arr[i], b.arr[i])
    ELSE a = b

(* C34: expandObject(flattenObject(t)) is t for every nested object t,     *)
(* keys with dots included, and flattenObject(expandObject(f)) is f for    *)
(* every f that flattenObject returned.                                    *)
C34_FlattenAndExpandAreInverse ==
    /\ (Len(util.applied) >= 2 /\ util.applied[1] = "flattenObject")
            => DeepEqual(util.results[2], util.obj)
    /\ (Len(util.applied) = 3 /\ util.applied[1] = "flattenObject")
            => DeepEqual(util.results[3], util.results[1])
(***************************************************************************)
(* A refused write of the inputs                                           *)
(***************************************************************************)
(* C40: when run throws because a key of its inputs is the name of a node  *)
(* that is not an echo node, nothing of that call is in the inputs node    *)
(* and no completion handler is attached to a deferred input.              *)
C40_RefusedWriteWritesNothing ==
    (/\ runState = "threw"
     /\ MissingInputs = {}
     /\ \E i \in 1..Len(runInputs.obj) : NamesNonEcho(Entry(i)[1]))
    => /\ inputsValue = Obj(<<>>)
       /\ handlers = {}
(***************************************************************************)
(* Deferred inputs that fail                                               *)
(***************************************************************************)
(* The keys of the run's inputs whose deferred has failed. *)
FailedKeys ==
    IF runState # "returned" THEN {}
    ELSE {Entry(i)[1] : i \in {j \in 1..Len(runInputs.obj) :
                                  /\ IsThenable(Entry(j)[2])
                                  /\ "fail" \in DOMAIN Entry(j)[2].then
                                  /\ ~Pending(Entry(j)[1])}}

(* A visible node whose `value` reads the inputs node under key k. *)
VisibleReaderOf(k) ==
    \E i \in 1..Len(nodes) :
        /\ isVisibleInGraphState(Graph, options, nodes[i])
        /\ \E j \in 1..Len(srcPathsOf(nodes[i])) :
              /\ IsString(srcPathsOf(nodes[i])[j])
              /\ Len(srcPathsOf(nodes[i])[j].str) > 1
              /\ SubSeq(srcPathsOf(nodes[i])[j].str, 1, 2) = <<"inputs">> \o k

(* The step in which a deferred input fails leaves the inputs node, the    *)
(* promise of the run and the events as they were.                         *)
FailureGoesUnnoticed ==
    (\E h \in handlers : "fail" \in DOMAIN h.outcome /\ handlers' = handlers \ {h})
        => UNCHANGED <<inputsValue, promise, events>>

(* C38: when a deferred input fails, nothing is written to the inputs node *)
(* under its key, the run is not rejected and no `error` is emitted for    *)
(* it, and while a visible node reads that key the run does not resolve.   *)
C38_FailedInputStallsTheRun ==
    /\ [](\A k \in FailedKeys :
             /\ ~HasKey(inputsValue, k)
             /\ VisibleReaderOf(k) => promise.state # "resolved")
    /\ [][FailureGoesUnnoticed]_vars

(* The deferred input x has failed, a visible node reads inputs.x, and the *)
(* run is pending with no `error` emitted.                                 *)
C38_Witness ==
    /\ <<"x">> \in FailedKeys
    /\ VisibleReaderOf(<<"x">>)
    /\ promise.state = "pending"
    /\ EventsNamed("error") = {}
    /\ EventsNamed("stepped") # {}
(***************************************************************************)
(* The order in which deferred inputs complete                             *)
(***************************************************************************)
(* The sequences in which the members of a set can follow one another. *)
Orders(S) ==
    {q \in [1..Cardinality(S) -> S] : \A i, j \in 1..Cardinality(S) : i # j => q[i] # q[j]}

RECURSIVE RunInOrder(_, _, _)
(* The promise of a run whose deferred inputs complete in `order`, on a    *)
(* graph without graph nodes: each completion writes its key and the       *)
(* autorun recomputes when the write reaches it.                           *)
RunInOrder(G, r, order) ==
    IF order = <<>> THEN r.promise
    ELSE LET H == [G EXCEPT !.inputs = SetKey(G.inputs, order[1].key, order[1].outcome.ok)]
         IN RunInOrder(H,
                       IF r.observer = "active" /\ AutorunNotified(G, options, H)
                       THEN Recomputation(H, options, TRUE, r.promise, <<>>)
                       ELSE r,
                       Tail(order))

(* The promise of run(runInputs) on this graph when the deferred inputs    *)
(* that complete do so in `order`.                                         *)
OutcomeInOrder(order) ==
    LET set == setInputs([Graph EXCEPT !.inputs = Obj(<<>>)], runInputs)
        G == [Graph EXCEPT !.inputs = SetAll(Obj(<<>>), set.written)]
    IN RunInOrder(G, Recomputation(G, options, FALSE,
                                   [state |-> "pending", value |-> Undefined], <<>>),
                  order)

(* The deferred inputs of the run that complete with a value. *)
Completing ==
    {h \in setInputs([Graph EXCEPT !.inputs = Obj(<<>>)], runInputs).attached :
        "ok" \in DOMAIN h.outcome}

(* C37: for a fixed graph and fixed inputs, the state with which run       *)
(* resolves is the same for every order in which the deferred inputs       *)
(* complete: the state this run resolved with is the state any other       *)
(* order of completion resolves with.  (Graphs without graph nodes.)       *)
C37_ResolvedStateIgnoresOrder ==
    (promise.state = "resolved" /\ GraphNodeNames(nodes) = {})
    => \A order \in Orders(Completing) :
          OutcomeInOrder(order).state = "resolved"
              => DeepEqual(OutcomeInOrder(order).value, promise.value)
(***************************************************************************)
(* The endpoints of the edges                                              *)
(***************************************************************************)
(* _graph.nodes(): the names in the node table.  setEdge(v, w) enters v    *)
(* and w in the table when they are not there, with no node for label.     *)
nodeIds == NamesIn(nodes) \cup UNION {{edge.srcNodeId, edge.dstNodeId} : edge \in edges}

(* C39: after `connected`, every edge of getDEdges() goes from the name of *)
(* a node of the graph to the name of a node of the graph, and storing the *)
(* edges has added no name to the node table: every name in it has a node. *)
C39_EdgesJoinNodes ==
    connected =>
        /\ \A edge \in edges : /\ edge.srcNodeId \in NamesIn(nodes)
                               /\ edge.dstNodeId \in NamesIn(nodes)
        /\ \A name \in nodeIds : getDNode(Graph, name) # NoNode
(***************************************************************************)
(* Listeners                                                               *)
(***************************************************************************)
(* The events of the name of registration id triggered after it was made. *)
TriggeredAfter(id) ==
    {i \in 1..Len(events) : /\ i > emitter.registered[id].at.events
                            /\ events[i].name = emitter.registered[id].name}

(* The invocations of the listener of registration id for event i. *)
InvokedFor(id, i) ==
    {c \in 1..Len(emitter.calls) : emitter.calls[c].id = id /\ emitter.calls[c].index = i}

(* C35: a listener registered with once(name, fn) is invoked for the first *)
(* `name` event triggered after the registration and for no later one; a   *)
(* listener registered with on(name, fn) is invoked for every `name` event *)
(* triggered after the registration (unless the caller has removed it).    *)
C35_OnceOnceOnAlways ==
    \A id \in 1..Len(emitter.registered) :
        \A i \in TriggeredAfter(id) :
            IF emitter.registered[id].kind = "once"
            THEN Cardinality(InvokedFor(id, i)) = (IF i = MinOf(TriggeredAfter(id)) THEN 1 ELSE 0)
            ELSE emitter.registered[id].removed \/ Cardinality(InvokedFor(id, i)) = 1

(* The registrations with on(name, ...) made once the constructor has      *)
(* returned and before the graph is connected.                             *)
RegisteredAfterConstruction(name) ==
    {id \in 1..Len(emitter.registered) :
        /\ emitter.registered[id].kind = "on"
        /\ emitter.registered[id].name = name
        /\ emitter.registered[id].at.lifecycle = 1}

(* C36: a listener registered with on('constructed', ...) or               *)
(* on('connected', ...) as soon as the constructor has returned is invoked *)
(* for the signal: once the signal has fired, the listener has been        *)
(* invoked for it.                                                         *)
C36_LifecycleListenersInvoked ==
    \A name \in {"constructed", "connected"} :
        \A id \in RegisteredAfterConstruction(name) :
            \A i \in Fired(name) : InvokedFor(id, i) # {}
====
